---- MODULE Spec2Model ----
(***************************************************************************)
(* The bounded breadth-first crawler of the backend (normalizeUrl,         *)
(* isSameDomain, crawl) with its HTTP handler POST /api/crawl, the         *)
(* single-page POST /api/scrape and the events scraper GET /api/tum-events.*)
(*                                                                         *)
(* A string is a sequence of tokens.  A token is one lexical piece of a    *)
(* URL: a scheme with its colon, the "//" that opens the authority, a      *)
(* hostname, a port with its colon, a "/", a path or query word, "?", "#", *)
(* a "." that is a path segment when it stands between slashes.            *)
(* A JavaScript number is kept in fixed point: the integer n stands for    *)
(* n / Unit, so that a fractional request value can be told from a whole   *)
(* one.                                                                    *)
(***************************************************************************)
EXTENDS Integers, Sequences, FiniteSets, TLC

\* ------------------------------------------------------------------ bounds

\* Fixed-point denominator of JavaScript numbers: n stands for n / Unit.
Unit == 2

\* ------------------------------------------------------- program constants

\* Math.min(Math.max(Number(maxPages) || 1, 1), 20)
MinPages == 1
MaxPages == 20
\* Math.min(Math.max(Number(maxDepth) || 0, 0), 3)
MinDepth == 0
MaxDepth == 3
\* const { url, maxPages = 5, maxDepth = 1, sameDomain = true } = req.body ?? {}
DefaultMaxPages == 5
DefaultMaxDepth == 1
\* $('a[href]').slice(0, 50) and Array.from(new Set(links)).slice(0, 50)
AnchorCap == 50
LinkCap == 50

\* ----------------------------------------------------------------- strings

SchemeTok == {"https:", "http:", "ftp:"}
\* A scheme that is not special (as web+demo: or app:): its URLs may have no
\* host, and the "//" of their authority is written as two "/" tokens.
NonSpecialTok == {"app:"}
HostTok == {"h", "sub.h", "g", "chn.tum.de"}
PortTok == {":81"}

\* The value of a string-valued expression that is null or undefined.
Null == <<"<null>">>
\* An optional field of a report that is absent.
Undefined == "<undefined>"

Min(a, b) == IF a <= b THEN a ELSE b
Max(a, b) == IF a >= b THEN a ELSE b

\* Array.prototype.slice(0, n) / String.prototype.slice(0, n)
Slice(s, n) == SubSeq(s, 1, Min(n, Len(s)))

\* The suffix of s from index i on.
From(s, i) == SubSeq(s, i, Len(s))

\* The least index of s holding a token of stop, or Len(s) + 1.
FirstOf(s, stop) ==
  IF \E i \in 1..Len(s) : s[i] \in stop
  THEN CHOOSE i \in 1..Len(s) : s[i] \in stop /\ \A j \in 1..(i - 1) : s[j] \notin stop
  ELSE Len(s) + 1

\* The greatest index of s holding tok, or 0.
LastOf(s, tok) ==
  IF \E i \in 1..Len(s) : s[i] = tok
  THEN CHOOSE i \in 1..Len(s) : s[i] = tok /\ \A j \in (i + 1)..Len(s) : s[j] # tok
  ELSE 0

\* String.prototype.replace(/\/+$/, ''): drop every trailing "/".
RECURSIVE StripTrailingSlashes(_)
StripTrailingSlashes(s) ==
  IF Len(s) > 0 /\ s[Len(s)] = "/"
  THEN StripTrailingSlashes(SubSeq(s, 1, Len(s) - 1))
  ELSE s

\* Array.from(new Set(xs)): the first occurrence of each element, in order.
Dedup(xs) ==
  LET IsFirst(i) == \A j \in 1..(i - 1) : xs[j] # xs[i]
      firsts == SelectSeq([i \in 1..Len(xs) |-> i], IsFirst)
  IN  [k \in 1..Len(firsts) |-> xs[firsts[k]]]

\* -------------------------------------------------------------------- URLs

\* The result of a failed parse (new URL throws a TypeError).
BadUrl ==
  [ok |-> FALSE, protocol |-> "", hasHost |-> FALSE, hostname |-> "", port |-> <<>>,
   pathname |-> <<>>, hasSearch |-> FALSE, search |-> <<>>, hasHash |-> FALSE,
   hash |-> <<>>]

\* The path, query and fragment of a URL tail: the path runs to the first
\* "?" or "#", the query from a "?" to the first "#", the fragment is the rest.
TailOf(rest) ==
  LET p == FirstOf(rest, {"?", "#"})
      afterPath == From(rest, p)
      isQ == afterPath # <<>> /\ afterPath[1] = "?"
      h == FirstOf(afterPath, {"#"})
  IN  [pathname |-> SubSeq(rest, 1, p - 1),
       hasSearch |-> isQ,
       search |-> IF isQ THEN SubSeq(afterPath, 2, h - 1) ELSE <<>>,
       hasHash |-> h <= Len(afterPath),
       hash |-> From(afterPath, h + 1)]

\* The path tokens of p from index i on without the single-dot segments: a
\* "." between slashes goes with the slash after it, a "." that ends the
\* path leaves the slash before it.
RECURSIVE DropDots(_, _)
DropDots(p, i) ==
  IF i > Len(p) THEN <<>>
  ELSE IF p[i] = "." /\ (i = 1 \/ p[i - 1] = "/") /\ (i = Len(p) \/ p[i + 1] = "/")
       THEN DropDots(p, i + 2)
       ELSE <<p[i]>> \o DropDots(p, i + 1)

\* The parsed URL of a scheme, an authority and a tail t (TailOf).  A special
\* URL with an empty path has the path "/"; the path of a URL without host
\* is opaque unless it starts with "/", and a path that is not opaque loses
\* its single-dot segments.
UrlOf(protocol, hasHost, hostname, port, t) ==
  [ok |-> TRUE, protocol |-> protocol, hasHost |-> hasHost, hostname |-> hostname,
   port |-> port,
   pathname |-> IF protocol \notin NonSpecialTok /\ t.pathname = <<>> THEN <<"/">>
                ELSE IF ~hasHost /\ (t.pathname = <<>> \/ t.pathname[1] # "/")
                  THEN t.pathname
                ELSE DropDots(t.pathname, 1),
   hasSearch |-> t.hasSearch, search |-> t.search,
   hasHash |-> t.hasHash, hash |-> t.hash]

\* new URL(raw) for a scheme that is not special: scheme ["/" "/" [host]
\* [port]] [path] ["?" query] ["#" fragment].  A host is one token or empty;
\* without "/" "/" the URL has no host, and its path is a list of segments
\* when it starts with "/" and opaque otherwise.  The path may be empty.
ParseNonSpecial(raw) ==
  LET rest == Tail(raw)
      authority == Len(rest) >= 2 /\ rest[1] = "/" /\ rest[2] = "/"
      after == From(rest, 3)
      named == authority /\ after # <<>> /\ after[1] \notin ({"/", "?", "#"} \cup PortTok)
      ported == named /\ Len(after) >= 2 /\ after[2] \in PortTok
      tail == IF ~authority THEN rest
              ELSE From(after, 1 + (IF named THEN 1 ELSE 0) + (IF ported THEN 1 ELSE 0))
  IN  IF authority /\ tail # <<>> /\ tail[1] \notin {"/", "?", "#"}
      THEN BadUrl
      ELSE UrlOf(raw[1], authority, IF named THEN after[1] ELSE "",
                 IF ported THEN <<after[2]>> ELSE <<>>, TailOf(tail))

\* new URL(raw) for an absolute URL: of a special scheme, scheme "//"
\* hostname [port] [path] ["?" query] ["#" fragment], where an empty path is
\* "/"; of another scheme, as ParseNonSpecial.
ParseUrl(raw) ==
  IF raw # <<>> /\ raw[1] \in NonSpecialTok THEN ParseNonSpecial(raw)
  ELSE IF ~(Len(raw) >= 3 /\ raw[1] \in SchemeTok /\ raw[2] = "//" /\ raw[3] \in HostTok)
  THEN BadUrl
  ELSE LET hasPort == Len(raw) >= 4 /\ raw[4] \in PortTok
           rest == From(raw, IF hasPort THEN 5 ELSE 4)
       IN  IF rest # <<>> /\ rest[1] \notin {"/", "?", "#"}
           THEN BadUrl
           ELSE UrlOf(raw[1], TRUE, raw[3], IF hasPort THEN <<raw[4]>> ELSE <<>>,
                      TailOf(rest))

\* The scheme and authority of a serialized URL.  A URL without host whose
\* path starts with an empty segment gets "/." before the path, so that the
\* path is not read as an authority.
UrlPrefix(u) ==
  IF u.protocol \notin NonSpecialTok THEN <<u.protocol, "//", u.hostname>> \o u.port
  ELSE IF u.hasHost
    THEN <<u.protocol, "/", "/">> \o (IF u.hostname = "" THEN <<>> ELSE <<u.hostname>>)
           \o u.port
  ELSE IF Len(u.pathname) >= 2 /\ u.pathname[1] = "/" /\ u.pathname[2] = "/"
    THEN <<u.protocol, "/", ".">>
  ELSE <<u.protocol>>

\* URL.prototype.toString(): the serialization of a parsed URL.
UrlToString(u) ==
  UrlPrefix(u) \o u.pathname
    \o (IF u.hasSearch THEN <<"?">> \o u.search ELSE <<>>)
    \o (IF u.hasHash THEN <<"#">> \o u.hash ELSE <<>>)

\* href, with the tail t, resolved against the parsed base b.
ResolveAgainst(href, b, t) ==
  IF ~b.ok THEN BadUrl
  ELSE IF href = <<>> THEN [b EXCEPT !.hasHash = FALSE, !.hash = <<>>]
  ELSE IF href[1] = "#"
    THEN [b EXCEPT !.hasHash = TRUE, !.hash = t.hash]
  ELSE IF href[1] = "?"
    THEN [b EXCEPT !.hasSearch = TRUE, !.search = t.search,
                   !.hasHash = t.hasHash, !.hash = t.hash]
  ELSE [b EXCEPT !.pathname = IF href[1] = "/" THEN t.pathname
                              ELSE SubSeq(b.pathname, 1, LastOf(b.pathname, "/"))
                                     \o t.pathname,
                 !.hasSearch = t.hasSearch, !.search = t.search,
                 !.hasHash = t.hasHash, !.hash = t.hash]

\* new URL(href, base): href parsed against an absolute base.
ResolveUrl(href, base) ==
  IF href # <<>> /\ href[1] \in SchemeTok \cup NonSpecialTok THEN ParseUrl(href)
  ELSE ResolveAgainst(href, ParseUrl(base), TailOf(href))

\* A check that accepts every URL that parses, whatever its scheme.
isHttpUrlAnyScheme(value) == ParseUrl(value).ok

\* function isHttpUrl(value)
isHttpUrl(value) ==
  LET parsed == ParseUrl(value)
  IN  parsed.ok /\ (parsed.protocol = "http:" \/ parsed.protocol = "https:")

\* A normalizeUrl that does not clear the fragment.
normalizeUrlKeepsHash(raw) ==
  LET parsed == ParseUrl(raw)
  IN  IF parsed.ok THEN StripTrailingSlashes(UrlToString(parsed)) ELSE Null

\* function normalizeUrl(raw): parse, clear the fragment, serialize, strip
\* the trailing slashes of the serialized string; null when the parse throws.
normalizeUrl(raw) ==
  LET parsed == ParseUrl(raw)
  IN  IF parsed.ok
      THEN StripTrailingSlashes(UrlToString([parsed EXCEPT !.hasHash = FALSE, !.hash = <<>>]))
      ELSE Null

\* A same-domain test that lets every link pass.
isSameDomainAlways(url, origin) == TRUE

\* function isSameDomain(url, origin): the hostnames are equal (the port is
\* no part of hostname); false when url does not parse.
isSameDomain(url, origin) ==
  LET parsed == ParseUrl(url)
  IN  IF parsed.ok THEN parsed.hostname = origin.hostname ELSE FALSE

\* ------------------------------------------------------- JavaScript values

\* A JavaScript value of a request body field: undefined, null, a boolean, a
\* number (finite in fixed point, NaN, Infinity, -Infinity) or a string.
JsVal(t, n, s, b) == [t |-> t, n |-> n, s |-> s, b |-> b]
JsUndefined == JsVal("undefined", 0, <<>>, FALSE)
JsNull == JsVal("null", 0, <<>>, FALSE)
JsNaN == JsVal("NaN", 0, <<>>, FALSE)
JsInfinity == JsVal("Infinity", 0, <<>>, FALSE)
JsNegInfinity == JsVal("-Infinity", 0, <<>>, FALSE)
\* The finite number n / Unit.
JsFixed(n) == JsVal("number", n, <<>>, FALSE)
\* The whole number i.
JsInt(i) == JsFixed(i * Unit)
JsString(s) == JsVal("string", 0, s, FALSE)
JsBool(b) == JsVal("boolean", 0, <<>>, b)

DigitTok == {"0", "1", "2", "3", "4", "5", "6", "7", "8", "9"}
DigitValue(d) == CHOOSE i \in 0..9 : ToString(i) = d

\* The value of a string of decimal digits.
RECURSIVE DecimalValue(_)
DecimalValue(s) ==
  IF s = <<>> THEN 0
  ELSE 10 * DecimalValue(SubSeq(s, 1, Len(s) - 1)) + DigitValue(s[Len(s)])

\* Number(v)
ToNumber(v) ==
  CASE v.t = "undefined" -> JsNaN
    [] v.t = "null" -> JsInt(0)
    [] v.t = "boolean" -> JsInt(IF v.b THEN 1 ELSE 0)
    [] v.t = "string" ->
         IF \A i \in 1..Len(v.s) : v.s[i] \in DigitTok
         THEN JsInt(DecimalValue(v.s))
         ELSE JsNaN
    [] OTHER -> v

\* Boolean(v): false for undefined, null, false, 0, NaN and ''.
ToBoolean(v) ==
  CASE v.t = "undefined" -> FALSE
    [] v.t = "null" -> FALSE
    [] v.t = "boolean" -> v.b
    [] v.t = "string" -> v.s # <<>>
    [] v.t = "number" -> v.n # 0
    [] v.t = "NaN" -> FALSE
    [] OTHER -> TRUE

\* a || b
JsOr(a, b) == IF ToBoolean(a) THEN a ELSE b

\* Math.max(a, b) of two numbers, b finite.
MathMax(a, b) ==
  CASE a.t = "NaN" -> JsNaN
    [] a.t = "Infinity" -> a
    [] a.t = "-Infinity" -> b
    [] OTHER -> JsFixed(Max(a.n, b.n))

\* Math.min(a, b) of two numbers, b finite.
MathMin(a, b) ==
  CASE a.t = "NaN" -> JsNaN
    [] a.t = "Infinity" -> b
    [] a.t = "-Infinity" -> a
    [] OTHER -> JsFixed(Min(a.n, b.n))

\* A destructuring default: field = dflt applies when the field is undefined.
WithDefault(v, dflt) == IF v.t = "undefined" THEN dflt ELSE v

\* Math.min(Math.max(Number(maxPages) || 1, 1), 20)
safeMaxPages(maxPages) ==
  MathMin(MathMax(JsOr(ToNumber(maxPages), JsInt(MinPages)), JsInt(MinPages)), JsInt(MaxPages))

\* Math.min(Math.max(Number(maxDepth) || 0, 0), 3)
safeMaxDepth(maxDepth) ==
  MathMin(MathMax(JsOr(ToNumber(maxDepth), JsInt(MinDepth)), JsInt(MinDepth)), JsInt(MaxDepth))

\* Boolean(sameDomain)
enforceSameDomain(sameDomain) == ToBoolean(sameDomain)

\* typeof url === 'string' && url && isHttpUrl(url)
ValidUrlField(url) == url.t = "string" /\ url.s # <<>> /\ isHttpUrl(url.s)

\* ------------------------------------------------------- the fetched pages

\* response.status of a fetch that axios resolves.
StatusOk == 200

\* err.message of a failed fetch.
FetchErrors == {"timeout of 10000ms exceeded"}
\* err.message of an exception thrown while the response is parsed.
ParseError == "cheerio.load() expects a string"

\* An HTML document, as far as the extraction reads it: the trimmed text of
\* the first <title>, the content of <meta name="description">, the content
\* of <meta property="description">, and the href of every <a href>, in
\* document order (Undefined: no such element).
Doc(title, metaName, metaProperty, anchors) ==
  [title |-> title, metaName |-> metaName, metaProperty |-> metaProperty,
   anchors |-> anchors]

Docs ==
  { Doc("T", "D", Undefined, <<>>),
    Doc("", Undefined, "P", << <<"/", "a">>, <<"/", "b", "/">> >>),
    Doc("T", "", Undefined,
        << <<"/", "a", "#", "f">>, <<"https:", "//", "h", "/", "a", "/">>,
           <<"#", "f">>, <<"/">> >>),
    Doc("T", Undefined, Undefined,
        << <<"https:", "//", "g", "/">>, <<"https:", "//", "sub.h", "/", "a">>,
           <<"https:", "//", "h", ":81", "/", "a">> >>),
    Doc("T", "D", "P", << <<"https:", "//">>, <<>>, <<"b">>, <<"/", "a">> >>) }

\* x || undefined for a string x that may be absent
OrUndefined(x) == IF x = "" THEN Undefined ELSE x

\* The links of a page: the first 50 anchors, each href resolved against the
\* page's normalized URL and normalized (an empty href and an href that does
\* not resolve are left out), then de-duplicated and cut to 50.
CollectLinks(anchors, normalized) ==
  LET Pushes(href) == href # <<>> /\ ResolveUrl(href, normalized).ok
      LinkOf(absolute) == IF normalizeUrl(absolute) # Null
                          THEN normalizeUrl(absolute) ELSE absolute
      hrefs == SelectSeq(anchors, Pushes)
  IN  [i \in 1..Len(hrefs) |-> LinkOf(UrlToString(ResolveUrl(hrefs[i], normalized)))]

\* An extraction that cuts the links, not the anchors, to the cap.
ExtractLinksOfAllAnchors(doc, normalized) ==
  Slice(Dedup(CollectLinks(doc.anchors, normalized)), LinkCap)

ExtractLinks(doc, normalized) ==
  Slice(Dedup(CollectLinks(Slice(doc.anchors, AnchorCap), normalized)), LinkCap)

\* -------------------------------------------------------------- the state

VARIABLES
  pc,          \* where the handler is: idle, loop (top of the while), fetch (awaiting axios.get), done
  body,        \* req.body of the request: [url, maxPages, maxDepth, sameDomain]
  res,         \* the response sent: [status, maxPages, maxDepth, sameDomain, pages]
  maxPages,    \* options.maxPages, in fixed point
  maxDepth,    \* options.maxDepth, in fixed point
  sameDomain,  \* options.sameDomain
  origin,      \* new URL(startUrl)
  queue,       \* the frontier
  visited,     \* the visited set
  pages,       \* the reports
  current,     \* the entry dequeued by this iteration
  page,        \* the report of this iteration
  fetches,     \* history: every axios.get of the request, as [url, outcome, data]
  visitDepth,  \* history: visitDepth[i] is the depth of the entry pages[i] came from
  pushed,      \* history: every queue.push, as [url, depth, from, at]
  route,       \* the route that took the request
  result,      \* POST /api/scrape: the ScrapeResult
  limited,     \* GET /api/tum-events: the events of the list, at most 5
  withImages,  \* GET /api/tum-events: what each detail fetch settled to
  raw,         \* normalizeUrl: the URL string under study
  calls,       \* normalizeUrl: the calls made, as [kind, arg, ret]
  other,       \* the frame of a second crawl() invocation, suspended or not started
  maxAttendees, \* meetups: meetup.maxAttendees of the meetup (0: null), NoMeetup before it is created
  members,     \* meetups: the users with a MeetupMember row of the meetup
  joins,       \* meetups: per user, where the join handler is and what it read and answered
  user,        \* AuthProvider: the user state
  token,       \* AuthProvider: the token state
  loading,     \* AuthProvider: the loading state
  error,       \* AuthProvider: the error state
  saved,       \* AuthProvider: localStorage[TOKEN_KEY]
  mounted,     \* AuthProvider: the mount effect has run
  profiles,    \* AuthProvider: the fetchProfile calls in flight, as [authToken, mount]
  logins,      \* AuthProvider: the login calls awaiting POST /auth/mock-login
  loggedOut    \* history: logout() was called and login() has not been called since

vars ==
  <<pc, body, res, maxPages, maxDepth, sameDomain, origin, queue, visited, pages,
    current, page, fetches, visitDepth, pushed, route, result, limited, withImages,
    raw, calls, other, maxAttendees, members, joins, user, token, loading, error, saved,
    mounted, profiles, logins, loggedOut>>

\* The state of the meetup routes.
meetupVars == <<maxAttendees, members, joins>>

\* The state of the AuthProvider of the web client.
authVars == <<user, token, loading, error, saved, mounted, profiles, logins, loggedOut>>

crawlVars ==
  <<maxPages, maxDepth, sameDomain, origin, queue, visited, pages, current, page,
    fetches, visitDepth, pushed>>

\* The state the steps of crawl() leave alone.
beyondCrawl == <<route, result, limited, withImages, raw, calls, other, meetupVars, authVars>>

\* The state the steps of POST /api/scrape leave alone.
beyondScrape ==
  <<maxPages, maxDepth, sameDomain, origin, queue, visited, pages, current, page,
    visitDepth, pushed, limited, withImages, raw, calls, other, meetupVars, authVars>>

\* The web answers at most this many fetches of one crawl; later fetches fail.
MaxResponses == 3

\* How many fetches of the crawl got a response.
Responses ==
  Cardinality({i \in 1..Len(fetches) : fetches[i].outcome \in {"nonhtml", "throws", "html"}})

\* The fetch awaited gets its outcome.
Fetched(outcome) ==
  fetches' = [fetches EXCEPT ![Len(fetches)].outcome = outcome]

\* The fetch awaited gets its outcome and what came with it: the message of
\* a failure, the document of an HTML response.
FetchedAs(outcome, data) ==
  fetches' = [fetches EXCEPT ![Len(fetches)].outcome = outcome,
                             ![Len(fetches)].data = data]

NoEntry == [url |-> <<>>, depth |-> 0]
NoPage ==
  [url |-> <<>>, status |-> <<>>, title |-> Undefined, description |-> Undefined,
   links |-> <<>>, error |-> Undefined]
NoBody ==
  [url |-> JsUndefined, maxPages |-> JsUndefined, maxDepth |-> JsUndefined,
   sameDomain |-> JsUndefined]
NoResponse ==
  [status |-> 0, startUrl |-> <<>>, maxPages |-> 0, maxDepth |-> 0,
   sameDomain |-> FALSE, pages |-> <<>>, error |-> Undefined]

\* const result: ScrapeResult = { url: target, headings: [], links: [] }
\* before target is known.
NoResult ==
  [url |-> <<>>, status |-> <<>>, title |-> Undefined, description |-> Undefined,
   ogTitle |-> Undefined, ogDescription |-> Undefined, ogImage |-> Undefined,
   textPreview |-> Undefined, headings |-> <<>>, links |-> <<>>, error |-> Undefined]

\* The request bodies.
UrlValues ==
  { JsUndefined, JsInt(7), JsString(<<"h">>), JsString(<<"ftp:", "//", "h", "/">>),
    JsString(<<"https:", "//", "h", "/">>),
    JsString(<<"https:", "//", "h", "/", "a", "/", "#", "f">>) }
MaxPagesValues ==
  { JsUndefined, JsInt(0), JsInt(-1), JsInt(2), JsFixed(2 * Unit + 1), JsInt(25),
    JsString(<<"a">>) }
MaxDepthValues ==
  { JsUndefined, JsInt(0), JsInt(-1), JsFixed(1), JsInt(2), JsInt(9),
    JsString(<<"a">>) }
SameDomainValues == { JsUndefined, JsBool(TRUE), JsBool(FALSE) }

Bodies ==
  [url : UrlValues, maxPages : MaxPagesValues, maxDepth : MaxDepthValues,
   sameDomain : SameDomainValues]

\* A token, a user or an error message that is null.
None == "<null>"

\* maxAttendees before the meetup is created.
NoMeetup == -1

\* The users of the meetup routes: the host and two others.
Users == {"host", "u1", "u2"}

\* The join handler of a user that is not running, with its last answer.
Answered(status) == [pc |-> "idle", status |-> status]

\* The server without a meetup and with no join request running.
NoMeetups ==
  /\ maxAttendees = NoMeetup
  /\ members = {}
  /\ joins = [u \in Users |-> Answered(0)]

\* The AuthProvider after construction, before its effect runs, with t in
\* localStorage[TOKEN_KEY]: the initial values of useState.
Unmounted(t) ==
  /\ user = None
  /\ token = None
  /\ loading = TRUE
  /\ error = None
  /\ saved = t
  /\ mounted = FALSE
  /\ profiles = <<>>
  /\ logins = 0
  /\ loggedOut = FALSE

\* The frame of a crawl() invocation that has not started.
IdleFrame ==
  [pc |-> "idle", body |-> NoBody, res |-> NoResponse, route |-> "none",
   maxPages |-> 0, maxDepth |-> 0, sameDomain |-> FALSE, origin |-> BadUrl,
   queue |-> <<>>, visited |-> {}, pages |-> <<>>, current |-> NoEntry, page |-> NoPage,
   fetches |-> <<>>, visitDepth |-> <<>>, pushed |-> <<>>]

Init ==
  /\ pc = "idle"
  /\ body = NoBody
  /\ res = NoResponse
  /\ maxPages = 0
  /\ maxDepth = 0
  /\ sameDomain = FALSE
  /\ origin = BadUrl
  /\ queue = <<>>
  /\ visited = {}
  /\ pages = <<>>
  /\ current = NoEntry
  /\ page = NoPage
  /\ fetches = <<>>
  /\ visitDepth = <<>>
  /\ pushed = <<>>
  /\ route = "none"
  /\ result = NoResult
  /\ limited = <<>>
  /\ withImages = <<>>
  /\ raw = <<>>
  /\ calls = <<>>
  /\ other = IdleFrame
  /\ NoMeetups
  /\ Unmounted(None)

\* ------------------------------------------------------- POST /api/crawl

\* The handler up to its await of crawl(), and crawl() up to its loop: the
\* url is validated (400), the options are clamped, and crawl() parses the
\* start URL (a throw is answered 500) and seeds the queue.
PostCrawl(b) ==
  /\ pc = "idle"
  /\ body' = b
  /\ route' = "POST /api/crawl"
  /\ UNCHANGED <<result, limited, withImages, raw, calls, other, meetupVars, authVars>>
  /\ IF ~ValidUrlField(b.url)
     THEN /\ res' = [NoResponse EXCEPT !.status = 400, !.error = "Invalid or missing URL"]
          /\ pc' = "done"
          /\ UNCHANGED crawlVars
     ELSE IF ~ParseUrl(b.url.s).ok
     THEN /\ res' = [NoResponse EXCEPT !.status = 500, !.error = "Crawl failed"]
          /\ pc' = "done"
          /\ UNCHANGED crawlVars
     ELSE /\ maxPages' = safeMaxPages(WithDefault(b.maxPages, JsInt(DefaultMaxPages))).n
          /\ maxDepth' = safeMaxDepth(WithDefault(b.maxDepth, JsInt(DefaultMaxDepth))).n
          /\ sameDomain' = enforceSameDomain(WithDefault(b.sameDomain, JsBool(TRUE)))
          /\ origin' = ParseUrl(b.url.s)
          /\ queue' = <<[url |-> b.url.s, depth |-> 0]>>
          /\ visited' = {}
          /\ pages' = <<>>
          /\ pc' = "loop"
          /\ UNCHANGED <<res, current, page, fetches, visitDepth, pushed>>

\* The loop condition with <= for <: one report too many.
LoopConditionOffByOne == Len(queue) > 0 /\ Len(pages) * Unit <= maxPages

\* while (queue.length > 0 && pages.length < maxPages)
LoopCondition == Len(queue) > 0 /\ Len(pages) * Unit < maxPages

\* The skip test without its look at the visited set.
SkipsUnparsedOnly(normalized) == normalized = Null \/ normalized = <<>>

\* if (!normalized || visited.has(normalized)) continue
Skips(normalized) == normalized = Null \/ normalized = <<>> \/ normalized \in visited

\* A shift that puts the head back at the tail of the queue.
ShiftRequeues(q) == Append(Tail(q), Head(q))

\* queue.shift(): the queue without its head
Shift(q) == Tail(q)

\* A skip that ends the loop (break for continue): crawl() returns.
LoopSkipBreaks ==
  /\ pc = "loop"
  /\ LoopCondition
  /\ Skips(normalizeUrl(Head(queue).url))
  /\ current' = Head(queue)
  /\ queue' = Shift(queue)
  /\ res' = [status |-> 200, startUrl |-> body.url.s, maxPages |-> maxPages,
             maxDepth |-> maxDepth, sameDomain |-> sameDomain, pages |-> pages,
             error |-> Undefined]
  /\ pc' = "done"
  /\ UNCHANGED <<body, maxPages, maxDepth, sameDomain, origin, visited, pages,
                 page, fetches, visitDepth, pushed>>
  /\ UNCHANGED beyondCrawl

\* An iteration that ends at `continue`: the dequeued entry does not
\* normalize or is visited already.
LoopSkip ==
  /\ pc = "loop"
  /\ LoopCondition
  /\ Skips(normalizeUrl(Head(queue).url))
  /\ current' = Head(queue)
  /\ queue' = Shift(queue)
  /\ UNCHANGED <<pc, body, res, maxPages, maxDepth, sameDomain, origin, visited, pages,
                 page, fetches, visitDepth, pushed>>
  /\ UNCHANGED beyondCrawl

\* An iteration up to its await of axios.get: the entry is dequeued, its
\* normalized URL marked visited and the report started.
LoopVisit ==
  /\ pc = "loop"
  /\ LoopCondition
  /\ LET normalized == normalizeUrl(Head(queue).url)
     IN  /\ ~Skips(normalized)
         /\ visited' = visited \cup {normalized}
         /\ page' = [NoPage EXCEPT !.url = normalized]
         /\ fetches' = Append(fetches, [url |-> normalized, outcome |-> "pending", data |-> Undefined])
  /\ current' = Head(queue)
  /\ queue' = Shift(queue)
  /\ pc' = "fetch"
  /\ UNCHANGED <<body, res, maxPages, maxDepth, sameDomain, origin, pages, visitDepth,
                 pushed>>
  /\ UNCHANGED beyondCrawl

\* pages.push(page)
PushPage(p) ==
  /\ pages' = Append(pages, p)
  /\ visitDepth' = Append(visitDepth, current.depth)

\* A catch block that records the failure and pushes no report.
FetchErrorDropsReport(reason) ==
  /\ pc = "fetch"
  /\ FetchedAs("error", reason)
  /\ page' = [page EXCEPT !.error = reason]
  /\ pc' = "loop"
  /\ UNCHANGED <<body, res, maxPages, maxDepth, sameDomain, origin, queue, visited,
                 pages, current, visitDepth, pushed>>
  /\ UNCHANGED beyondCrawl

\* A fetch without the try block: the rejection leaves crawl() and the
\* handler answers 500.
FetchErrorAborts(reason) ==
  /\ pc = "fetch"
  /\ FetchedAs("error", reason)
  /\ res' = [NoResponse EXCEPT !.status = 500, !.error = "Crawl failed"]
  /\ pc' = "done"
  /\ UNCHANGED <<body, maxPages, maxDepth, sameDomain, origin, queue, visited, pages,
                 current, page, visitDepth, pushed>>
  /\ UNCHANGED beyondCrawl

\* A catch block that takes the URL out of the visited set again, so that a
\* later entry for it is fetched anew.
FetchErrorForgets(reason) ==
  /\ pc = "fetch"
  /\ FetchedAs("error", reason)
  /\ PushPage([page EXCEPT !.error = reason])
  /\ page' = [page EXCEPT !.error = reason]
  /\ visited' = visited \ {page.url}
  /\ pc' = "loop"
  /\ UNCHANGED <<body, res, maxPages, maxDepth, sameDomain, origin, queue,
                 current, pushed>>
  /\ UNCHANGED beyondCrawl

\* axios.get rejects: the catch block records the reason.
FetchError(reason) ==
  /\ pc = "fetch"
  /\ FetchedAs("error", reason)
  /\ PushPage([page EXCEPT !.error = reason])
  /\ page' = [page EXCEPT !.error = reason]
  /\ pc' = "loop"
  /\ UNCHANGED <<body, res, maxPages, maxDepth, sameDomain, origin, queue, visited,
                 current, pushed>>
  /\ UNCHANGED beyondCrawl

\* A non-HTML branch without its continue: the report is pushed, and pushed
\* again after the extraction that follows.
FetchNonHtmlFallsThrough ==
  /\ pc = "fetch"
  /\ Responses < MaxResponses
  /\ Fetched("nonhtml")
  /\ LET p == [page EXCEPT !.status = <<StatusOk>>, !.error = "Skipped non-HTML response"]
     IN  /\ pages' = pages \o <<p, p>>
         /\ visitDepth' = visitDepth \o <<current.depth, current.depth>>
         /\ page' = p
  /\ pc' = "loop"
  /\ UNCHANGED <<body, res, maxPages, maxDepth, sameDomain, origin, queue, visited,
                 current, pushed>>
  /\ UNCHANGED beyondCrawl

\* axios.get resolves with a content type that does not include text/html.
FetchNonHtml ==
  /\ pc = "fetch"
  /\ Responses < MaxResponses
  /\ Fetched("nonhtml")
  /\ LET p == [page EXCEPT !.status = <<StatusOk>>, !.error = "Skipped non-HTML response"]
     IN  PushPage(p) /\ page' = p
  /\ pc' = "loop"
  /\ UNCHANGED <<body, res, maxPages, maxDepth, sameDomain, origin, queue, visited,
                 current, pushed>>
  /\ UNCHANGED beyondCrawl

\* An exception thrown after pages.push(page) of the try block: the catch
\* block pushes the report a second time.
FetchHtmlThrowsAfterPush ==
  /\ pc = "fetch"
  /\ Responses < MaxResponses
  /\ Fetched("throws")
  /\ LET p == [page EXCEPT !.status = <<StatusOk>>, !.error = ParseError]
     IN  /\ pages' = pages \o <<[page EXCEPT !.status = <<StatusOk>>], p>>
         /\ visitDepth' = visitDepth \o <<current.depth, current.depth>>
         /\ page' = p
  /\ pc' = "loop"
  /\ UNCHANGED <<body, res, maxPages, maxDepth, sameDomain, origin, queue, visited,
                 current, pushed>>
  /\ UNCHANGED beyondCrawl

\* axios.get resolves with text/html and load() throws on the body: the
\* catch block records the reason on the report that has its status.
FetchHtmlThrows ==
  /\ pc = "fetch"
  /\ Responses < MaxResponses
  /\ Fetched("throws")
  /\ LET p == [page EXCEPT !.status = <<StatusOk>>, !.error = ParseError]
     IN  PushPage(p) /\ page' = p
  /\ pc' = "loop"
  /\ UNCHANGED <<body, res, maxPages, maxDepth, sameDomain, origin, queue, visited,
                 current, pushed>>
  /\ UNCHANGED beyondCrawl

\* The successor expansion without its test of nextDepth against maxDepth.
SuccessorsAtAnyDepth(links, nextDepth, from) ==
  LET Pushes(i) ==
        /\ links[i] # <<>>
        /\ (sameDomain => isSameDomain(links[i], origin))
        /\ links[i] \notin visited
      at == SelectSeq([i \in 1..Len(links) |-> i], Pushes)
  IN  [k \in 1..Len(at) |-> [url |-> links[at[k]], depth |-> nextDepth,
                             from |-> from, at |-> at[k]]]

\* The successor expansion with the depth of the page, not of its links,
\* tested against maxDepth.
SuccessorsOffByOne(links, nextDepth, from) ==
  LET Pushes(i) ==
        /\ links[i] # <<>>
        /\ (sameDomain => isSameDomain(links[i], origin))
        /\ links[i] \notin visited
      at == SelectSeq([i \in 1..Len(links) |-> i], Pushes)
  IN  IF ~((nextDepth - 1) * Unit <= maxDepth) THEN <<>>
      ELSE [k \in 1..Len(at) |-> [url |-> links[at[k]], depth |-> nextDepth,
                                  from |-> from, at |-> at[k]]]

\* The successor expansion without its look at the visited set.
SuccessorsOfVisited(links, nextDepth, from) ==
  LET Pushes(i) ==
        /\ links[i] # <<>>
        /\ (sameDomain => isSameDomain(links[i], origin))
      at == SelectSeq([i \in 1..Len(links) |-> i], Pushes)
  IN  IF ~(nextDepth * Unit <= maxDepth) THEN <<>>
      ELSE [k \in 1..Len(at) |-> [url |-> links[at[k]], depth |-> nextDepth,
                                  from |-> from, at |-> at[k]]]

\* The entries the successor expansion pushes for the links of a report, in
\* link order: nextDepth <= maxDepth, the link is not empty, passes the
\* same-domain filter and is not visited.
Successors(links, nextDepth, from) ==
  LET Pushes(i) ==
        /\ links[i] # <<>>
        /\ (sameDomain => isSameDomain(links[i], origin))
        /\ links[i] \notin visited
      at == SelectSeq([i \in 1..Len(links) |-> i], Pushes)
  IN  IF ~(nextDepth * Unit <= maxDepth) THEN <<>>
      ELSE [k \in 1..Len(at) |-> [url |-> links[at[k]], depth |-> nextDepth,
                                  from |-> from, at |-> at[k]]]

\* A push at the front of the queue: the frontier as a stack.
EnqueueAtFront(q, succ) ==
  [i \in 1..Len(succ) |-> [url |-> succ[i].url, depth |-> succ[i].depth]] \o q

\* queue.push({ url: link, depth: nextDepth }) for each successor
Enqueue(q, succ) == q \o [i \in 1..Len(succ) |-> [url |-> succ[i].url, depth |-> succ[i].depth]]

\* axios.get resolves with text/html: the report gets status, title,
\* description and links, is pushed, and its links are expanded.
FetchHtml(doc) ==
  /\ pc = "fetch"
  /\ Responses < MaxResponses
  /\ FetchedAs("html", doc)
  /\ LET p == [page EXCEPT !.status = <<StatusOk>>,
                           !.title = OrUndefined(doc.title),
                           !.description = IF doc.metaName = Undefined THEN Undefined
                                           ELSE OrUndefined(doc.metaName),
                           !.links = ExtractLinks(doc, page.url)]
         succ == Successors(p.links, current.depth + 1, Len(pages) + 1)
     IN  /\ PushPage(p)
         /\ page' = p
         /\ queue' = Enqueue(queue, succ)
         /\ pushed' = pushed \o succ
  /\ pc' = "loop"
  /\ UNCHANGED <<body, res, maxPages, maxDepth, sameDomain, origin, visited, current>>
  /\ UNCHANGED beyondCrawl

\* The loop ends, crawl() returns pages and the handler answers 200.
Return ==
  /\ pc = "loop"
  /\ ~LoopCondition
  /\ res' = [status |-> 200, startUrl |-> body.url.s, maxPages |-> maxPages,
             maxDepth |-> maxDepth, sameDomain |-> sameDomain, pages |-> pages,
             error |-> Undefined]
  /\ pc' = "done"
  /\ UNCHANGED <<body, crawlVars>>
  /\ UNCHANGED beyondCrawl

Next ==
  \/ \E b \in Bodies : PostCrawl(b)
  \/ LoopSkip
  \/ LoopVisit
  \/ \E reason \in FetchErrors : FetchError(reason)
  \/ FetchNonHtml
  \/ FetchHtmlThrows
  \/ \E doc \in Docs : FetchHtml(doc)
  \/ Return

Spec == Init /\ [][Next]_vars

\* The steps of the event loop that run without awaiting the network.
Runs == LoopSkip \/ LoopVisit \/ Return

\* The fetch awaited returns, with a response or a failure.
FetchReturns ==
  \/ \E reason \in FetchErrors : FetchError(reason)
  \/ FetchNonHtml
  \/ FetchHtmlThrows
  \/ \E doc \in Docs : FetchHtml(doc)

\* ENABLED <<Runs>>_vars: at the top of the loop the handler either leaves
\* the loop or starts an iteration, and each of these changes pc or queue.
RunsEnabled == pc = "loop"

\* The handler runs on when it can (weak fairness of Runs, with its ENABLED
\* written as the state predicate it equals), and every fetch returns
\* (axios.get has a timeout of 10 s and at most 5 redirects).
FairSpec ==
  /\ Spec
  /\ ([]<>~RunsEnabled \/ []<><<Runs>>_vars)
  /\ WF_vars(FetchReturns)

\* ------------------------------------------------------ POST /api/scrape

\* $('h1, h2, h3').slice(0, 20)
HeadingCap == 20
\* .find((text) => text.length > 40)
PreviewMin == 40
\* firstParagraph.slice(0, 280)
PreviewCap == 280

\* The meta elements the scrape reads beside the description.
OgKeys == {"og:title", "og:description", "og:image"}

\* The content of <meta name=...> and of <meta property=...> for one key
\* (Undefined: no such element).
Meta(name, property) == [name |-> name, property |-> property]

\* A text of a paragraph, as its identity and its length after trim().
Text(id, length) == [id |-> id, length |-> length]

\* What the scrape reads of a document beside the fields of Doc: the og meta
\* elements, the trimmed text of every h1, h2 and h3 and the trimmed text of
\* every p, in document order.
Extra(og, headings, paragraphs) ==
  [og |-> og, headings |-> headings, paragraphs |-> paragraphs]

Extras ==
  { Extra([k \in OgKeys |-> Meta(Undefined, Undefined)], <<>>, <<>>),
    Extra([k \in OgKeys |-> IF k = "og:title" THEN Meta(Undefined, "OT")
                            ELSE IF k = "og:image" THEN Meta("", "OI")
                            ELSE Meta("OD", "ODP")],
          <<"H1", "", "H2">>,
          <<Text("p1", PreviewMin), Text("p2", PreviewCap + 1), Text("p3", PreviewMin + 1)>>),
    Extra([k \in OgKeys |-> Meta("", Undefined)],
          [i \in 1..(HeadingCap + 1) |-> IF i = 1 THEN "" ELSE "H"],
          <<Text("p1", 0), Text("p2", PreviewMin + 1)>>) }

\* response.data of the pages a scrape fetches.
ScrapeDocs == {doc @@ extra : doc \in Docs, extra \in Extras}

\* a || b for two strings that may be absent
OrElse(a, b) == IF a = Undefined \/ a = "" THEN b ELSE a

\* const getMeta = (name) => $(`meta[name="${name}"]`).attr('content')
\*                            || $(`meta[property="${name}"]`).attr('content')
getMeta(doc, name) ==
  IF name = "description" THEN OrElse(doc.metaName, doc.metaProperty)
  ELSE OrElse(doc.og[name].name, doc.og[name].property)

\* x || undefined for the result of getMeta
MetaOrUndefined(x) == IF x = Undefined THEN Undefined ELSE OrUndefined(x)

\* The trimmed texts of the first 20 headings that are not empty.
RECURSIVE NonEmpty(_)
NonEmpty(texts) ==
  IF texts = <<>> THEN <<>>
  ELSE LET init == NonEmpty(SubSeq(texts, 1, Len(texts) - 1))
           last == texts[Len(texts)]
       IN  IF last = "" THEN init ELSE Append(init, last)

ExtractHeadings(doc) == NonEmpty(Slice(doc.headings, HeadingCap))

\* The first paragraph longer than 40, cut to 280; Undefined without one.
ExtractPreview(doc) ==
  LET long == {i \in 1..Len(doc.paragraphs) : doc.paragraphs[i].length > PreviewMin}
  IN  IF long = {} THEN Undefined
      ELSE LET first == doc.paragraphs[CHOOSE i \in long : \A j \in long : i <= j]
           IN  Text(first.id, Min(first.length, PreviewCap))

\* The bodies of the scrape requests: the handler reads url only.
ScrapeBodies == {[NoBody EXCEPT !.url = u] : u \in UrlValues}

\* The handler up to its await of axios.get: the url is validated (400) and
\* normalized (400), and the result started.
PostScrape(b) ==
  /\ pc = "idle"
  /\ body' = b
  /\ route' = "POST /api/scrape"
  /\ IF ~ValidUrlField(b.url)
     THEN /\ res' = [NoResponse EXCEPT !.status = 400, !.error = "Invalid or missing URL"]
          /\ pc' = "done"
          /\ UNCHANGED <<result, fetches>>
     ELSE LET target == normalizeUrl(b.url.s)
          IN  IF target = Null \/ target = <<>>
              THEN /\ res' = [NoResponse EXCEPT !.status = 400, !.error = "Invalid URL"]
                   /\ pc' = "done"
                   /\ UNCHANGED <<result, fetches>>
              ELSE /\ result' = [NoResult EXCEPT !.url = target]
                   /\ fetches' = Append(fetches, [url |-> target, outcome |-> "pending", data |-> Undefined])
                   /\ pc' = "scrape"
                   /\ UNCHANGED res
  /\ UNCHANGED beyondScrape

\* res.json(result) and res.status(500).json(result)
Respond(status, r) == [status |-> status, result |-> r]

\* A catch block that also fills in a status.
ScrapeFetchErrorWithStatus(reason) ==
  /\ pc = "scrape"
  /\ FetchedAs("error", reason)
  /\ result' = [result EXCEPT !.status = <<500>>, !.error = reason]
  /\ res' = Respond(500, result')
  /\ pc' = "done"
  /\ UNCHANGED <<body, route, beyondScrape>>

\* axios.get rejects: the catch block records the reason and answers 500
\* with the result.
ScrapeFetchError(reason) ==
  /\ pc = "scrape"
  /\ FetchedAs("error", reason)
  /\ result' = [result EXCEPT !.error = reason]
  /\ res' = Respond(500, result')
  /\ pc' = "done"
  /\ UNCHANGED <<body, route, beyondScrape>>

\* A non-HTML branch that fetches the target once more.
ScrapeNonHtmlRetries ==
  /\ pc = "scrape"
  /\ Len(fetches) < 2
  /\ fetches' = Append([fetches EXCEPT ![Len(fetches)].outcome = "nonhtml"],
                       [url |-> result.url, outcome |-> "pending", data |-> Undefined])
  /\ UNCHANGED <<pc, body, res, route, result, beyondScrape>>

\* axios.get resolves with a content type that does not include text/html:
\* the result gets the status and the skip marker and is answered 200.
ScrapeNonHtml ==
  /\ pc = "scrape"
  /\ Fetched("nonhtml")
  /\ result' = [result EXCEPT !.status = <<StatusOk>>, !.error = "Skipped non-HTML response"]
  /\ res' = Respond(200, result')
  /\ pc' = "done"
  /\ UNCHANGED <<body, route, beyondScrape>>

\* axios.get resolves with text/html and load() throws on the body: the
\* catch block answers 500 with the result that has its status.
ScrapeHtmlThrows ==
  /\ pc = "scrape"
  /\ Fetched("throws")
  /\ result' = [result EXCEPT !.status = <<StatusOk>>, !.error = ParseError]
  /\ res' = Respond(500, result')
  /\ pc' = "done"
  /\ UNCHANGED <<body, route, beyondScrape>>

\* axios.get resolves with text/html: the result gets every extracted field
\* and is answered 200.
ScrapeHtml(doc) ==
  /\ pc = "scrape"
  /\ FetchedAs("html", doc)
  /\ result' = [result EXCEPT
                  !.status = <<StatusOk>>,
                  !.title = OrUndefined(doc.title),
                  !.description = MetaOrUndefined(getMeta(doc, "description")),
                  !.ogTitle = MetaOrUndefined(getMeta(doc, "og:title")),
                  !.ogDescription = MetaOrUndefined(getMeta(doc, "og:description")),
                  !.ogImage = MetaOrUndefined(getMeta(doc, "og:image")),
                  !.headings = ExtractHeadings(doc),
                  !.textPreview = ExtractPreview(doc),
                  !.links = ExtractLinks(doc, result.url)]
  /\ res' = Respond(200, result')
  /\ pc' = "done"
  /\ UNCHANGED <<body, route, beyondScrape>>

\* ------------------------------------------------ two crawls in one process

\* The frame of the crawl() invocation that runs.
Frame ==
  [pc |-> pc, body |-> body, res |-> res, route |-> route,
   maxPages |-> maxPages, maxDepth |-> maxDepth, sameDomain |-> sameDomain,
   origin |-> origin, queue |-> queue, visited |-> visited, pages |-> pages,
   current |-> current, page |-> page, fetches |-> fetches,
   visitDepth |-> visitDepth, pushed |-> pushed]

\* A switch that leaves the visited set where it is: one set for both
\* invocations.
SwitchSharesVisited ==
  /\ pc # "loop"
  /\ other' = Frame
  /\ pc' = other.pc
  /\ body' = other.body
  /\ res' = other.res
  /\ route' = other.route
  /\ maxPages' = other.maxPages
  /\ maxDepth' = other.maxDepth
  /\ sameDomain' = other.sameDomain
  /\ origin' = other.origin
  /\ queue' = other.queue
  /\ pages' = other.pages
  /\ current' = other.current
  /\ page' = other.page
  /\ fetches' = other.fetches
  /\ visitDepth' = other.visitDepth
  /\ pushed' = other.pushed
  /\ UNCHANGED <<visited, result, limited, withImages, raw, calls, meetupVars, authVars>>

\* The event loop turns to the other invocation: the one that runs is at an
\* await (or has not started, or has returned), its locals stay in its
\* frame, and the locals of the other one are those the steps now act on.
Switch ==
  /\ pc # "loop"
  /\ other' = Frame
  /\ pc' = other.pc
  /\ body' = other.body
  /\ res' = other.res
  /\ route' = other.route
  /\ maxPages' = other.maxPages
  /\ maxDepth' = other.maxDepth
  /\ sameDomain' = other.sameDomain
  /\ origin' = other.origin
  /\ queue' = other.queue
  /\ visited' = other.visited
  /\ pages' = other.pages
  /\ current' = other.current
  /\ page' = other.page
  /\ fetches' = other.fetches
  /\ visitDepth' = other.visitDepth
  /\ pushed' = other.pushed
  /\ UNCHANGED <<result, limited, withImages, raw, calls, meetupVars, authVars>>

\* The requests and the documents of the two crawls.
IsolationBodies ==
  { [NoBody EXCEPT !.url = JsString(<<"https:", "//", "h", "/">>), !.maxPages = JsInt(4),
                   !.maxDepth = JsInt(2)],
    [NoBody EXCEPT !.url = JsString(<<"https:", "//", "h", "/", "a", "/", "#", "f">>),
                   !.maxPages = JsInt(2), !.sameDomain = JsBool(FALSE)] }

IsolationDocs ==
  { Doc("", Undefined, "P", << <<"/", "a">>, <<"/", "b", "/">> >>),
    Doc("T", "", Undefined,
        << <<"/", "a", "#", "f">>, <<"https:", "//", "h", "/", "a", "/">>,
           <<"#", "f">>, <<"/">> >>) }

IsolationNext ==
  \/ \E b \in IsolationBodies : PostCrawl(b)
  \/ LoopSkip
  \/ LoopVisit
  \/ \E reason \in FetchErrors : FetchError(reason)
  \/ FetchNonHtml
  \/ \E doc \in IsolationDocs : FetchHtml(doc)
  \/ Return
  \/ Switch

IsolationSpec == Init /\ [][IsolationNext]_vars

\* ------------------------------------------------- crawl() called directly

\* The arguments of the direct calls: a start URL that parses and options
\* in and out of the ranges of the handler, in fixed point.
DirectUrls == {<<"https:", "//", "h", "/">>}
DirectMaxPages == {0 * Unit, 2 * Unit, 25 * Unit}
DirectMaxDepth == {-1 * Unit, 1 * Unit, 4 * Unit}

\* crawl(startUrl, { maxPages, maxDepth, sameDomain }) up to its loop: the
\* options are taken as they are.
CallCrawl(startUrl, options) ==
  /\ pc = "idle"
  /\ ParseUrl(startUrl).ok
  /\ route' = "crawl()"
  /\ maxPages' = options.maxPages
  /\ maxDepth' = options.maxDepth
  /\ sameDomain' = options.sameDomain
  /\ origin' = ParseUrl(startUrl)
  /\ queue' = <<[url |-> startUrl, depth |-> 0]>>
  /\ visited' = {}
  /\ pages' = <<>>
  /\ pc' = "loop"
  /\ UNCHANGED <<body, res, current, page, fetches, visitDepth, pushed, result, limited,
                 withImages, raw, calls, other, meetupVars, authVars>>

\* The loop ends and crawl() returns pages to its caller.
CrawlReturns ==
  /\ pc = "loop"
  /\ ~LoopCondition
  /\ pc' = "done"
  /\ UNCHANGED <<body, res, crawlVars, beyondCrawl>>

DirectNext ==
  \/ \E startUrl \in DirectUrls,
        options \in [maxPages : DirectMaxPages, maxDepth : DirectMaxDepth,
                     sameDomain : BOOLEAN] : CallCrawl(startUrl, options)
  \/ LoopSkip
  \/ LoopVisit
  \/ \E reason \in FetchErrors : FetchError(reason)
  \/ FetchNonHtml
  \/ FetchHtmlThrows
  \/ \E doc \in Docs : FetchHtml(doc)
  \/ CrawlReturns

DirectSpec == Init /\ [][DirectNext]_vars

\* ------------------------------------------------------------ normalizeUrl

\* The longest path of a URL under study, in tokens.
MaxPath == 4
\* The most calls of normalizeUrl on one URL under study.
MaxCalls == 2

PathTok == {"/", "a", "."}

\* The paths of at most MaxPath tokens in which slashes separate segments of
\* one token.
Paths ==
  {path \in UNION {[1..k -> PathTok] : k \in 0..MaxPath} :
     \A i \in 1..(Len(path) - 1) : path[i] = "/" \/ path[i + 1] = "/"}

Queries == {<<>>, <<"?">>, <<"?", "q">>, <<"?", "q", "/">>}
Fragments == {<<>>, <<"f">>, <<"f", "/">>}

\* The URL strings under study: absolute URLs of a special scheme (with an
\* empty path or one that starts with "/") and of a scheme that is not
\* special, and strings that do not parse.
UrlInputs ==
  {pre \o path \o query \o hash :
     pre \in {<<"https:", "//", "h">>, <<"http:", "//", "h", ":81">>},
     path \in {x \in Paths : x = <<>> \/ x[1] = "/"},
     query \in Queries,
     hash \in {<<>>} \cup {<<"#">> \o f : f \in Fragments}}
  \cup {<<"app:">> \o path \o query \o hash :
          path \in Paths, query \in Queries, hash \in {<<>>, <<"#", "f">>}}
  \cup {<<>>, <<"h">>, <<"/", "a">>, <<"https:", "//">>}

NormalizerInit ==
  /\ pc = "normalize"
  /\ raw \in UrlInputs
  /\ calls = <<>>
  /\ body = NoBody
  /\ res = NoResponse
  /\ maxPages = 0
  /\ maxDepth = 0
  /\ sameDomain = FALSE
  /\ origin = BadUrl
  /\ queue = <<>>
  /\ visited = {}
  /\ pages = <<>>
  /\ current = NoEntry
  /\ page = NoPage
  /\ fetches = <<>>
  /\ visitDepth = <<>>
  /\ pushed = <<>>
  /\ route = "none"
  /\ result = NoResult
  /\ limited = <<>>
  /\ withImages = <<>>
  /\ other = IdleFrame
  /\ NoMeetups
  /\ Unmounted(None)

\* The state the calls of normalizeUrl leave alone.
beyondNormalizer ==
  <<pc, body, res, maxPages, maxDepth, sameDomain, origin, queue, visited, pages,
    current, page, fetches, visitDepth, pushed, route, result, limited, withImages,
    raw, other, meetupVars, authVars>>

\* A call of normalizeUrl with its return value.
Call(kind, arg) == [kind |-> kind, arg |-> arg, ret |-> normalizeUrl(arg)]

\* normalizeUrl(raw)
Normalize ==
  /\ pc = "normalize"
  /\ calls = <<>>
  /\ calls' = <<Call("raw", raw)>>
  /\ UNCHANGED beyondNormalizer

\* normalizeUrl(normalizeUrl(...)): the last return value is normalized.
NormalizeAgain ==
  /\ pc = "normalize"
  /\ calls # <<>> /\ Len(calls) < MaxCalls
  /\ calls[Len(calls)].ret # Null
  /\ calls' = Append(calls, Call("again", calls[Len(calls)].ret))
  /\ UNCHANGED beyondNormalizer

\* normalizeUrl(raw + '#' + f)
NormalizeWithFragment(f) ==
  /\ pc = "normalize"
  /\ calls # <<>> /\ Len(calls) < MaxCalls
  /\ calls' = Append(calls, Call("fragment", raw \o <<"#">> \o f))
  /\ UNCHANGED beyondNormalizer

\* normalizeUrl(raw + '/')
NormalizeWithSlash ==
  /\ pc = "normalize"
  /\ calls # <<>> /\ Len(calls) < MaxCalls
  /\ calls' = Append(calls, Call("slash", raw \o <<"/">>))
  /\ UNCHANGED beyondNormalizer

NormalizerNext ==
  \/ Normalize
  \/ NormalizeAgain
  \/ \E f \in Fragments : NormalizeWithFragment(f)
  \/ NormalizeWithSlash

NormalizerSpec == NormalizerInit /\ [][NormalizerNext]_vars

\* ----------------------------------------------------- GET /api/tum-events

\* const EVENTS_URL = 'https://chn.tum.de/events'
EVENTS_URL == <<"https:", "//", "chn.tum.de", "/", "events">>
\* $('a[href*="/event/"]').slice(0, 30)
EventAnchorCap == 30
\* links.slice(0, 5)
EventCap == 5

\* function toAbsoluteUrl(href, base): undefined (Null) for an empty href and
\* for one that does not resolve.
toAbsoluteUrl(href, base) ==
  IF href = Null \/ href = <<>> THEN Null
  ELSE IF ResolveUrl(href, base).ok THEN UrlToString(ResolveUrl(href, base))
  ELSE Null

\* An anchor of the events page whose href contains "/event/": its href, the
\* title found for it (of its container, else its own text, trimmed) and
\* the date found for it (Undefined: none).
EventAnchor(href, title, date) == [href |-> href, title |-> title, date |-> date]

\* { title, date, url: absolute } and { ...event, image }
Event(title, date, url, image) == [title |-> title, date |-> date, url |-> url, image |-> image]

\* An element of withImages whose detail fetch has not settled.
NoEvent == Event("", Undefined, <<>>, Null)

\* The events of the anchors: of the first 30, those whose href resolves to
\* a URL no earlier anchor resolved to and that have a title.
RECURSIVE CollectEvents(_)
CollectEvents(anchors) ==
  IF anchors = <<>> THEN <<>>
  ELSE LET earlier == SubSeq(anchors, 1, Len(anchors) - 1)
           a == anchors[Len(anchors)]
           absolute == toAbsoluteUrl(a.href, EVENTS_URL)
       IN  IF absolute = Null
              \/ (\E i \in 1..Len(earlier) : toAbsoluteUrl(earlier[i].href, EVENTS_URL) = absolute)
              \/ a.title = ""
           THEN CollectEvents(earlier)
           ELSE Append(CollectEvents(earlier), Event(a.title, a.date, absolute, Null))

ExtractEvents(listing) == Slice(CollectEvents(Slice(listing, EventAnchorCap)), EventCap)

\* The anchor of event n.
Anchor(n) == EventAnchor(<<"/", "event", "/", n>>, n, IF n = "1" THEN "D" ELSE Undefined)

\* response.data of the events page, as its anchors.
Listings ==
  { <<>>,
    <<Anchor("1")>>,
    <<EventAnchor(<<"/", "event", "/", "2">>, "", Undefined), Anchor("1"), Anchor("1"),
      Anchor("2"), EventAnchor(<<"https:", "//">>, "x", Undefined), Anchor("3")>>,
    <<Anchor("1"), Anchor("2"), Anchor("3"), Anchor("4"), Anchor("5"), Anchor("6")>>,
    [i \in 1..(EventAnchorCap + 1) |->
       IF i < EventAnchorCap THEN Anchor("1")
       ELSE IF i = EventAnchorCap THEN Anchor("2") ELSE Anchor("3")] }

\* detail.data of an event page, as far as it is read: the content of
\* <meta property="og:image"> and the src of the first <img>.
Detail(ogImage, hero) == [ogImage |-> ogImage, hero |-> hero]

Details ==
  { Detail(<<"https:", "//", "g", "/", "i">>, <<"/", "hero">>),
    Detail(<<>>, <<"/", "hero">>),
    Detail(Null, Null) }

\* toAbsoluteUrl(ogImage || hero, event.url)
ImageOf(detail, event) ==
  toAbsoluteUrl(IF detail.ogImage = Null \/ detail.ogImage = <<>> THEN detail.hero
                ELSE detail.ogImage,
                event.url)

\* The state the steps of GET /api/tum-events leave alone.
beyondEvents ==
  <<body, maxPages, maxDepth, sameDomain, origin, queue, visited, pages, current, page,
    visitDepth, pushed, result, raw, calls, other, meetupVars, authVars>>

\* The handler up to its await of axios.get(EVENTS_URL).
GetTumEvents ==
  /\ pc = "idle"
  /\ route' = "GET /api/tum-events"
  /\ fetches' = <<[url |-> EVENTS_URL, outcome |-> "pending", data |-> Undefined]>>
  /\ pc' = "events"
  /\ UNCHANGED <<res, limited, withImages, beyondEvents>>

\* axios.get(EVENTS_URL) rejects (timeout, network error, a status that is
\* not 2xx): the outer catch answers 500.
EventsFetchError(reason) ==
  /\ pc = "events"
  /\ FetchedAs("error", reason)
  /\ res' = [NoResponse EXCEPT !.status = 500, !.error = "Failed to fetch TUM events"]
  /\ pc' = "done"
  /\ UNCHANGED <<route, limited, withImages, beyondEvents>>

\* axios.get(EVENTS_URL) resolves and load() throws on the body: the outer
\* catch answers 500.
EventsThrows ==
  /\ pc = "events"
  /\ Fetched("throws")
  /\ res' = [NoResponse EXCEPT !.status = 500, !.error = "Failed to fetch TUM events"]
  /\ pc' = "done"
  /\ UNCHANGED <<route, limited, withImages, beyondEvents>>

\* axios.get(EVENTS_URL) resolves: the events are extracted and cut to 5,
\* and Promise.all starts the fetch of every event's detail page.
EventsListed(listing) ==
  /\ pc = "events"
  /\ limited' = ExtractEvents(listing)
  /\ withImages' = [i \in 1..Len(limited') |-> NoEvent]
  /\ fetches' = [fetches EXCEPT ![1].outcome = "html", ![1].data = listing]
                  \o [i \in 1..Len(limited') |->
                        [url |-> limited'[i].url, outcome |-> "pending", data |-> Undefined]]
  /\ pc' = "details"
  /\ UNCHANGED <<res, route, beyondEvents>>

\* The detail fetch of event i rejects, or load() throws on its body: the
\* inner catch returns the event as it is.
DetailFailed(i, reason) ==
  /\ pc = "details"
  /\ withImages[i] = NoEvent
  /\ fetches' = [fetches EXCEPT ![1 + i].outcome = "error", ![1 + i].data = reason]
  /\ withImages' = [withImages EXCEPT ![i] = limited[i]]
  /\ UNCHANGED <<pc, res, route, limited, beyondEvents>>

\* The detail fetch of event i resolves: the event gets its image.
DetailFetched(i, detail) ==
  /\ pc = "details"
  /\ withImages[i] = NoEvent
  /\ fetches' = [fetches EXCEPT ![1 + i].outcome = "html", ![1 + i].data = detail]
  /\ withImages' = [withImages EXCEPT ![i] = [limited[i] EXCEPT !.image = ImageOf(detail, limited[i])]]
  /\ UNCHANGED <<pc, res, route, limited, beyondEvents>>

\* Promise.all resolves: res.json({ source, count, events: withImages })
EventsRespond ==
  /\ pc = "details"
  /\ \A i \in 1..Len(withImages) : withImages[i] # NoEvent
  /\ res' = [status |-> 200, source |-> EVENTS_URL, count |-> Len(withImages),
             events |-> withImages]
  /\ pc' = "done"
  /\ UNCHANGED <<fetches, route, limited, withImages, beyondEvents>>

\* -------------------------------------------------------------- the server

\* The routes of the server that fetch pages, one request at a time.
ServerNext ==
  \/ Next
  \/ \E b \in ScrapeBodies : PostScrape(b)
  \/ \E reason \in FetchErrors : ScrapeFetchError(reason)
  \/ ScrapeNonHtml
  \/ ScrapeHtmlThrows
  \/ \E doc \in ScrapeDocs : ScrapeHtml(doc)
  \/ GetTumEvents
  \/ \E reason \in FetchErrors : EventsFetchError(reason)
  \/ EventsThrows
  \/ \E listing \in Listings : EventsListed(listing)
  \/ \E i \in 1..Len(withImages), reason \in FetchErrors : DetailFailed(i, reason)
  \/ \E i \in 1..Len(withImages), detail \in Details : DetailFetched(i, detail)
  \/ EventsRespond

ServerSpec == Init /\ [][ServerNext]_vars

\* ------------------------------------- a crawl, then a scrape, on one server

\* The first n hrefs "/1", "/2", ...
Numbered(n) == [i \in 1..n |-> <<"/", ToString(i)>>]

\* More anchors than the cap, of which the first AnchorCap repeat five hrefs.
Repeated ==
  [i \in 1..(AnchorCap + 3) |->
     IF i <= AnchorCap THEN <<"/", ToString(i % 5)>> ELSE <<"/", ToString(i)>>]

\* More anchors than the cap, the first of them with an empty href, an href
\* that does not resolve, and hrefs that differ by a trailing slash or a
\* fragment only.
Mixed ==
  [i \in 1..(AnchorCap + 1) |->
     CASE i = 1 -> <<>>
       [] i = 2 -> <<"https:", "//">>
       [] i = 3 -> <<"/", "b", "/">>
       [] i = 4 -> <<"/", "a", "#", "f">>
       [] i = 5 -> <<"#", "f">>
       [] i = AnchorCap + 1 -> <<"/", "z">>
       [] OTHER -> <<"/", "a">>]

\* response.data of the pages of the session: documents with more anchors
\* than the cap, and with a description in <meta name>, in <meta property>,
\* in both or in none.
SessionDocs ==
  { Doc("T", Undefined, "P", Numbered(AnchorCap + 2))
      @@ Extra([k \in OgKeys |-> Meta(Undefined, Undefined)], <<>>, <<>>),
    Doc("", "D", "P", Repeated)
      @@ Extra([k \in OgKeys |-> Meta("O", Undefined)], <<"H">>, <<>>),
    Doc("T", "", "P", Mixed)
      @@ Extra([k \in OgKeys |-> Meta(Undefined, Undefined)], <<>>, <<>>),
    Doc("T", "D", Undefined, << <<"/", "a">>, <<"/", "b", "/">> >>)
      @@ Extra([k \in OgKeys |-> Meta(Undefined, Undefined)], <<>>, <<>>) }

SessionCrawlBodies ==
  { [NoBody EXCEPT !.url = JsString(<<"https:", "//", "h", "/">>), !.maxPages = JsInt(n),
                   !.maxDepth = JsInt(2)] : n \in {1, 4} }

SessionScrapeBodies ==
  { [NoBody EXCEPT !.url = JsString(u)] :
      u \in { <<"https:", "//", "h", "/">>, <<"https:", "//", "h", "/", "a", "/", "#", "f">>,
              <<"https:", "//", "h", "/", "b">> } }

\* The crawl request is answered and the server takes the next request.
NextRequest ==
  /\ pc = "done"
  /\ route = "POST /api/crawl"
  /\ pc' = "idle"
  /\ UNCHANGED <<body, res, crawlVars, beyondCrawl>>

SessionNext ==
  \/ (fetches = <<>> /\ \E b \in SessionCrawlBodies : PostCrawl(b))
  \/ LoopSkip
  \/ LoopVisit
  \/ \E reason \in FetchErrors : FetchError(reason)
  \/ FetchNonHtml
  \/ FetchHtmlThrows
  \/ \E doc \in SessionDocs : FetchHtml(doc)
  \/ Return
  \/ NextRequest
  \/ (route = "POST /api/crawl" /\ \E b \in SessionScrapeBodies : PostScrape(b))
  \/ \E reason \in FetchErrors : ScrapeFetchError(reason)
  \/ ScrapeNonHtml
  \/ ScrapeHtmlThrows
  \/ \E doc \in SessionDocs : ScrapeHtml(doc)

SessionSpec == Init /\ [][SessionNext]_vars

\* ------------------------------------------------------------ the meetups

\* maxAttendees of the request that creates the meetup; 0 stands for null
\* and for 0, which the capacity test takes alike.
MaxAttendeesValues == {0, 1, 2}

\* The state the meetup routes leave alone.
beyondMeetups ==
  <<pc, body, res, crawlVars, route, result, limited, withImages, raw, calls, other,
    authVars>>

\* POST /meetups by the host: a body that fails the validation is answered
\* 400; else the meetup is created with the host as its first member and
\* answered 201.
CreateMeetup(valid, n) ==
  /\ maxAttendees = NoMeetup
  /\ joins["host"].pc = "idle"
  /\ IF ~valid
     THEN /\ joins' = [joins EXCEPT !["host"] = Answered(400)]
          /\ UNCHANGED <<maxAttendees, members>>
     ELSE /\ maxAttendees' = n
          /\ members' = {"host"}
          /\ joins' = [joins EXCEPT !["host"] = Answered(201)]
  /\ UNCHANGED beyondMeetups

\* POST /meetups/:id/join by u up to its await of upsert: findUnique gives
\* the meetup with its members; no meetup is answered 404, a full one 400.
JoinRead(u) ==
  /\ joins[u].pc = "idle"
  /\ IF maxAttendees = NoMeetup
     THEN joins' = [joins EXCEPT ![u] = Answered(404)]
     ELSE IF maxAttendees # 0 /\ Cardinality(members) >= maxAttendees
     THEN joins' = [joins EXCEPT ![u] = Answered(400)]
     ELSE joins' = [joins EXCEPT ![u] = [pc |-> "upsert", status |-> 0]]
  /\ UNCHANGED <<maxAttendees, members, beyondMeetups>>

\* prisma.meetupMember.upsert resolves: u has a row of the meetup (one row,
\* by the key meetupId_userId) and the request is answered 'joined'.
JoinUpsert(u) ==
  /\ joins[u].pc = "upsert"
  /\ members' = members \cup {u}
  /\ joins' = [joins EXCEPT ![u] = Answered(200)]
  /\ UNCHANGED <<maxAttendees, beyondMeetups>>

\* findUnique or upsert rejects: the catch block answers 500.
JoinFails(u) ==
  /\ joins[u].pc = "upsert" \/ (joins[u].pc = "idle" /\ maxAttendees # NoMeetup)
  /\ joins' = [joins EXCEPT ![u] = Answered(500)]
  /\ UNCHANGED <<maxAttendees, members, beyondMeetups>>

\* POST /meetups/:id/leave by u: deleteMany removes the row of u, if any.
Leave(u) ==
  /\ maxAttendees # NoMeetup
  /\ members' = members \ {u}
  /\ UNCHANGED <<maxAttendees, joins, beyondMeetups>>

MeetupNext ==
  \/ \E valid \in BOOLEAN, n \in MaxAttendeesValues : CreateMeetup(valid, n)
  \/ \E u \in Users : JoinRead(u)
  \/ \E u \in Users : JoinUpsert(u)
  \/ \E u \in Users : JoinFails(u)
  \/ \E u \in Users : Leave(u)

MeetupSpec == Init /\ [][MeetupNext]_vars

\* -------------------------------------------- the AuthProvider (web client)

\* The most fetchProfile and login calls in flight at once.
MaxInFlight == 3

\* data.token and data.user of the responses of the server.
IssuedToken == "t1"
ProfileUser == "alice"
\* err.message of a profile request that failed.
ProfileErrors == {"Request failed: 401", "Failed to fetch"}

\* The state the AuthProvider leaves alone.
beyondAuth ==
  <<pc, body, res, crawlVars, route, result, limited, withImages, raw, calls, other,
    meetupVars>>

\* s without its element i.
RemoveAt(s, i) == SubSeq(s, 1, i - 1) \o SubSeq(s, i + 1, Len(s))

\* The effect run on mount: a saved token becomes the token and its profile
\* is fetched (loading ends when the fetch settles); without one loading
\* ends at once.
Mount ==
  /\ ~mounted
  /\ mounted' = TRUE
  /\ IF saved # None
     THEN /\ token' = saved
          /\ profiles' = Append(profiles, [authToken |-> saved, mount |-> TRUE])
          /\ UNCHANGED loading
     ELSE /\ loading' = FALSE
          /\ UNCHANGED <<token, profiles>>
  /\ UNCHANGED <<user, error, saved, logins, loggedOut, beyondAuth>>

\* refreshProfile() up to its await: with a token, fetchProfile(token).
RefreshProfile ==
  /\ mounted
  /\ token # None
  /\ Len(profiles) + logins < MaxInFlight
  /\ profiles' = Append(profiles, [authToken |-> token, mount |-> FALSE])
  /\ UNCHANGED <<user, token, loading, error, saved, mounted, logins, loggedOut, beyondAuth>>

\* GET /me of fetchProfile call i is answered ok: setUser(data.user),
\* setError(null); the call made on mount ends loading.
ProfileOk(i) ==
  /\ user' = ProfileUser
  /\ error' = None
  /\ loading' = (loading /\ ~profiles[i].mount)
  /\ profiles' = RemoveAt(profiles, i)
  /\ UNCHANGED <<token, saved, mounted, logins, loggedOut, beyondAuth>>

\* GET /me of fetchProfile call i fails or is answered not ok: the catch
\* block does setError(reason), setUser(null).
ProfileFails(i, reason) ==
  /\ user' = None
  /\ error' = reason
  /\ loading' = (loading /\ ~profiles[i].mount)
  /\ profiles' = RemoveAt(profiles, i)
  /\ UNCHANGED <<token, saved, mounted, logins, loggedOut, beyondAuth>>

\* login(input) up to its await of POST /auth/mock-login; an input without
\* email or name, or with a faculty that is not valid, throws before it.
LoginStart(valid) ==
  /\ mounted
  /\ Len(profiles) + logins < MaxInFlight
  /\ IF valid
     THEN logins' = logins + 1 /\ loggedOut' = FALSE
     ELSE UNCHANGED <<logins, loggedOut>>
  /\ UNCHANGED <<user, token, loading, error, saved, mounted, profiles, beyondAuth>>

\* POST /auth/mock-login is answered ok: setToken, setUser, the token is
\* saved and the error cleared.
LoginOk ==
  /\ logins > 0
  /\ logins' = logins - 1
  /\ token' = IssuedToken
  /\ user' = ProfileUser
  /\ saved' = IssuedToken
  /\ error' = None
  /\ UNCHANGED <<loading, mounted, profiles, loggedOut, beyondAuth>>

\* POST /auth/mock-login fails or is answered not ok: login throws.
LoginFails ==
  /\ logins > 0
  /\ logins' = logins - 1
  /\ UNCHANGED <<user, token, loading, error, saved, mounted, profiles, loggedOut, beyondAuth>>

\* logout()
Logout ==
  /\ mounted
  /\ token' = None
  /\ user' = None
  /\ error' = None
  /\ saved' = None
  /\ loggedOut' = TRUE
  /\ UNCHANGED <<loading, mounted, profiles, logins, beyondAuth>>

\* The page is loaded again: the provider is constructed anew, with what
\* localStorage holds; the calls of the old page are gone.
Reload ==
  /\ mounted
  /\ user' = None
  /\ token' = None
  /\ loading' = TRUE
  /\ error' = None
  /\ mounted' = FALSE
  /\ profiles' = <<>>
  /\ logins' = 0
  /\ loggedOut' = FALSE
  /\ UNCHANGED <<saved, beyondAuth>>

AuthNext ==
  \/ Mount
  \/ RefreshProfile
  \/ \E i \in 1..Len(profiles) : ProfileOk(i)
  \/ \E i \in 1..Len(profiles), reason \in ProfileErrors : ProfileFails(i, reason)
  \/ \E valid \in BOOLEAN : LoginStart(valid)
  \/ LoginOk
  \/ LoginFails
  \/ Logout
  \/ Reload

AuthSpec == Init /\ [][AuthNext]_vars

\* ------------------------------------------------------------- the claims

\* The elements of a sequence.
Range(s) == {s[i] : i \in 1..Len(s)}

\* The request is a valid CrawlRequest: maxPages is a whole number in
\* [1, 20] and maxDepth a whole number in [0, 3].
ValidRequest ==
  /\ maxPages % Unit = 0
  /\ MinPages * Unit <= maxPages /\ maxPages <= MaxPages * Unit
  /\ maxDepth % Unit = 0
  /\ MinDepth * Unit <= maxDepth /\ maxDepth <= MaxDepth * Unit

\* crawl() is running or has returned.
Crawling == pc \in {"loop", "fetch"} \/ (pc = "done" /\ origin.ok)

\* C1. Bound invariant: for a valid CrawlRequest (maxPages a whole number in
\* [1, 20], maxDepth a whole number in [0, 3]), at every point of crawl() and
\* in the result the handler sends, there are at most maxPages reports.
C1_BoundInvariant ==
  (Crawling /\ ValidRequest) =>
    /\ Len(pages) * Unit <= maxPages
    /\ Len(res.pages) * Unit <= maxPages

\* C1 witness: a crawl returned with exactly maxPages >= 2 reports while
\* entries were still waiting in the frontier.
C1_Witness ==
  /\ pc = "done" /\ res.status = 200 /\ ValidRequest
  /\ maxPages >= 2 * Unit
  /\ Len(res.pages) * Unit = maxPages
  /\ Len(queue) > 0

\* C2. Dedup invariant: no two reports of a crawl have the same normalized
\* url, at any point of the crawl and in the result.
C2_DedupInvariant ==
  /\ \A i, j \in 1..Len(pages) :
       i # j => normalizeUrl(pages[i].url) # normalizeUrl(pages[j].url)
  /\ \A i, j \in 1..Len(res.pages) :
       i # j => normalizeUrl(res.pages[i].url) # normalizeUrl(res.pages[j].url)

\* C2 witness: a crawl returned at least three reports from a link graph
\* with a cycle (two reports link to each other), a self-link, and a
\* dequeued entry that was skipped as visited.
C2_Witness ==
  /\ pc = "done" /\ res.status = 200 /\ Len(res.pages) >= 3
  /\ \E i, j \in 1..Len(pages) :
       /\ i # j
       /\ pages[j].url \in Range(pages[i].links)
       /\ pages[i].url \in Range(pages[j].links)
       /\ pages[j].url \in Range(pages[j].links)
  /\ Len(fetches) + Len(queue) < Len(pushed) + 1

\* C3. Termination: when every fetch returns, a crawl that has started
\* returns; and for a valid CrawlRequest it returns with the frontier empty
\* or with exactly maxPages reports, as a 200 response carrying the reports.
C3_Termination ==
  /\ (pc \in {"loop", "fetch"}) ~> (pc = "done")
  /\ [](pc = "done" /\ origin.ok /\ ValidRequest =>
          /\ res.status = 200
          /\ res.pages = pages
          /\ (queue = <<>> \/ Len(pages) * Unit = maxPages))

\* C3 witness: a crawl over a cyclic link graph (a report links back to the
\* seed) returned with an empty frontier and fewer than maxPages reports.
C3_Witness ==
  /\ pc = "done" /\ res.status = 200 /\ ValidRequest
  /\ queue = <<>>
  /\ Len(pages) >= 2 /\ Len(pages) * Unit < maxPages
  /\ \E i \in 2..Len(pages) : pages[1].url \in Range(pages[i].links)

\* The report of a fetch of url that failed with reason.
FailureReport(url, reason) == [NoPage EXCEPT !.url = url, !.error = reason]

\* The step in which the fetch awaited ends with the given outcome.
FetchEnds(outcome) ==
  /\ pc = "fetch"
  /\ Len(fetches') = Len(fetches)
  /\ fetches'[Len(fetches')].outcome = outcome

\* C4. Failure containment: the step in which a fetch fails appends exactly
\* one report {url: normalized URL, error: reason}, leaves the frontier as it
\* is and goes back to the top of the loop; and when the fetch of the seed
\* fails, the handler answers 200 with exactly that one report for the
\* normalized start URL, the frontier being empty.
C4_FailureContainment ==
  /\ [][FetchEnds("error") =>
          /\ \E reason \in FetchErrors :
               pages' = Append(pages, FailureReport(normalizeUrl(current.url), reason))
          /\ queue' = queue
          /\ visited' = visited
          /\ pc' = "loop"]_vars
  /\ [](pc = "done" /\ Len(fetches) >= 1 /\ fetches[1].outcome = "error" =>
          /\ res.status = 200
          /\ \E reason \in FetchErrors :
               res.pages = <<FailureReport(normalizeUrl(body.url.s), reason)>>
          /\ queue = <<>>)

\* C4 witness: a crawl returned in which the fetch of a page other than the
\* seed failed while entries were in the frontier, and later pages were
\* still fetched and reported.
C4_Witness ==
  /\ pc = "done" /\ res.status = 200
  /\ \E i \in 2..(Len(res.pages) - 1) :
       /\ fetches[i].outcome = "error"
       /\ res.pages[i].error \in FetchErrors

\* The report of a fetch of url answered with something that is not HTML.
SkippedReport(url) ==
  [NoPage EXCEPT !.url = url, !.status = <<StatusOk>>,
                 !.error = "Skipped non-HTML response"]

\* C5. Non-HTML short-circuit: the step in which a fetch is answered with a
\* content type without text/html appends exactly one report with the HTTP
\* status, the error 'Skipped non-HTML response' and no links, adds nothing
\* to the frontier, and goes back to the top of the loop.
C5_NonHtmlShortCircuit ==
  [][FetchEnds("nonhtml") =>
       /\ pages' = Append(pages, SkippedReport(normalizeUrl(current.url)))
       /\ queue' = queue
       /\ pc' = "loop"]_vars

\* C5 witness: a crawl returned in which a page was answered with non-HTML
\* while entries were in the frontier, and a later page was reported.
C5_Witness ==
  /\ pc = "done" /\ res.status = 200
  /\ \E i \in 1..(Len(res.pages) - 1) :
       /\ fetches[i].outcome = "nonhtml"
       /\ res.pages[i] = SkippedReport(fetches[i].url)

\* A report of an HTML success.
IsHtmlSuccess(p) == p.status # <<>> /\ p.error = Undefined

\* The URLs within k links of the seed, following the links of the
\* HTML-success reports.
RECURSIVE ReachedWithin(_)
ReachedWithin(k) ==
  IF k = 0 THEN {normalizeUrl(body.url.s)}
  ELSE LET near == ReachedWithin(k - 1)
       IN  near \cup UNION {Range(pages[j].links) :
                             j \in {i \in 1..Len(pages) :
                                      IsHtmlSuccess(pages[i]) /\ pages[i].url \in near}}

\* C6. Depth invariant: every reported URL is within maxDepth links of the
\* seed; the seed is reported at depth 0, and every other report was reached
\* at a depth of at most maxDepth through a link of an earlier HTML-success
\* report, one level below it.
C6_DepthInvariant ==
  \A i \in 1..Len(pages) :
    /\ pages[i].url \in ReachedWithin(maxDepth \div Unit)
    /\ visitDepth[i] * Unit <= maxDepth
    /\ i = 1 => visitDepth[i] = 0 /\ pages[i].url = normalizeUrl(body.url.s)
    /\ i > 1 => \E j \in 1..(i - 1) :
                  /\ IsHtmlSuccess(pages[j])
                  /\ pages[i].url \in Range(pages[j].links)
                  /\ visitDepth[i] = visitDepth[j] + 1

\* C6 witness: a crawl with maxDepth 1 returned with an empty frontier and
\* fewer than maxPages reports, one of them at depth 1 with a link that
\* passes the same-domain filter to a URL that was never visited.
C6_Witness ==
  /\ pc = "done" /\ res.status = 200
  /\ maxDepth = 1 * Unit
  /\ queue = <<>> /\ Len(pages) * Unit < maxPages
  /\ \E i \in 1..Len(pages) :
       /\ visitDepth[i] = 1
       /\ \E link \in Range(pages[i].links) :
            link \notin visited /\ isSameDomain(link, origin)

\* URL.prototype.host: the hostname, with the port when the URL has one.
UrlHost(u) == <<u.hostname>> \o u.port

\* C7 as stated. Domain filter: when sameDomain is true, no report has a
\* host (hostname and port) that differs from the host of startUrl.
C7_DomainFilterHost ==
  sameDomain =>
    \A i \in 1..Len(pages) : UrlHost(ParseUrl(pages[i].url)) = UrlHost(origin)

\* C7 as amended. Domain filter: when sameDomain is true, no report has a
\* hostname that differs from the hostname of startUrl; a report may be on
\* another port of that hostname.
C7_DomainFilterHostname ==
  sameDomain =>
    /\ \A i \in 1..Len(pages) : ParseUrl(pages[i].url).hostname = origin.hostname
    /\ \A i \in 1..Len(res.pages) : ParseUrl(res.pages[i].url).hostname = origin.hostname

\* C7 witness: a crawl with sameDomain returned a report whose links go to
\* another hostname, to a sub-domain and to another port of the seed's
\* hostname, and reported the page on the other port.
C7_Witness ==
  /\ pc = "done" /\ res.status = 200 /\ sameDomain
  /\ \E i \in 1..Len(pages) :
       /\ \E link \in Range(pages[i].links) : ParseUrl(link).hostname = "g"
       /\ \E link \in Range(pages[i].links) : ParseUrl(link).hostname = "sub.h"
       /\ \E k \in (i + 1)..Len(pages) :
            /\ pages[k].url \in Range(pages[i].links)
            /\ ParseUrl(pages[k].url).port # origin.port

\* The index in pushed of the first push of url, or 0.
FirstPush(url) ==
  IF \E k \in 1..Len(pushed) : pushed[k].url = url
  THEN CHOOSE k \in 1..Len(pushed) :
         pushed[k].url = url /\ \A m \in 1..(k - 1) : pushed[m].url # url
  ELSE 0

\* C8. Breadth-first order: along pages the depth of visit never decreases,
\* and two reported URLs first pushed from the same report are reported in
\* the order of that report's links.
C8_BreadthFirstOrder ==
  /\ \A i, j \in 1..Len(pages) : i < j => visitDepth[i] <= visitDepth[j]
  /\ \A i, j \in 1..Len(pages) :
       LET a == FirstPush(pages[i].url)
           b == FirstPush(pages[j].url)
       IN  (a # 0 /\ b # 0 /\ pushed[a].from = pushed[b].from
              /\ pushed[a].at < pushed[b].at) => i < j

\* C8 witness: a crawl returned reports at depths 0, 1, 1 and 2, the two at
\* depth 1 first pushed from the seed's report.
C8_Witness ==
  /\ pc = "done" /\ res.status = 200
  /\ Len(pages) >= 4
  /\ visitDepth[2] = 1 /\ visitDepth[3] = 1 /\ visitDepth[4] = 2
  /\ FirstPush(pages[2].url) # 0 /\ FirstPush(pages[3].url) # 0
  /\ pushed[FirstPush(pages[2].url)].from = 1
  /\ pushed[FirstPush(pages[3].url)].from = 1

\* C9. Boundary clamping: for a body with a valid url, the maxPages given to
\* crawl() and echoed in the response is a whole number in [1, 20], the
\* maxDepth a whole number in [0, 3], and sameDomain is true when the body
\* omits it.
C9_BoundaryClamping ==
  Crawling =>
    /\ ValidRequest
    /\ body.sameDomain = JsUndefined => sameDomain
    /\ res.status = 200 =>
         /\ res.maxPages = maxPages /\ res.maxDepth = maxDepth
         /\ res.sameDomain = sameDomain

\* C10. POST /api/crawl answers 200 with the CrawlResult for every valid
\* http(s) url, whatever the fetches did, and answers an error status only
\* when the url is invalid or crawl() could not parse the start URL.
C10_CrawlResponds200 ==
  pc = "done" =>
    /\ ValidUrlField(body.url) =>
         /\ res.status = 200
         /\ res.startUrl = body.url.s
         /\ res.pages = pages
    /\ res.status # 200 => ~ValidUrlField(body.url) \/ ~ParseUrl(body.url.s).ok

\* C10 witness: a crawl of at least three pages returned 200 although every
\* fetch after the seed's failed.
C10_Witness ==
  /\ pc = "done" /\ res.status = 200
  /\ Len(res.pages) >= 3
  /\ \A i \in 2..Len(fetches) : fetches[i].outcome = "error"

\* The url of a body is missing, not a string, empty, unparseable or not of
\* scheme http or https.
BadUrlField(url) ==
  \/ url.t # "string"
  \/ url.s = <<>>
  \/ ~ParseUrl(url.s).ok
  \/ ParseUrl(url.s).protocol \notin {"http:", "https:"}

\* C11. Input validation: POST /api/scrape and POST /api/crawl answer a body
\* whose url is missing, not a string, unparseable or not http(s) with 400,
\* issue no fetch for it and create no crawl state and no result; and a
\* request that reaches a fetch or the crawl loop has an http(s) url.
C11_InputValidation ==
  /\ (pc = "done" /\ route \in {"POST /api/scrape", "POST /api/crawl"}
        /\ BadUrlField(body.url)) =>
       /\ res.status = 400
       /\ fetches = <<>>
       /\ queue = <<>> /\ visited = {} /\ pages = <<>> /\ ~origin.ok
       /\ result = NoResult
  /\ (pc \in {"loop", "fetch", "scrape"}) => ~BadUrlField(body.url)

\* C11 witness: POST /api/scrape answered 400 to a url that parses and has
\* the scheme ftp.
C11_Witness ==
  /\ pc = "done" /\ route = "POST /api/scrape" /\ res.status = 400
  /\ body.url.t = "string" /\ ParseUrl(body.url.s).ok
  /\ ParseUrl(body.url.s).protocol = "ftp:"

\* C12. Scrape on fetch error: when the fetch of a scrape fails, the handler
\* responds (with 500) and the body is the report {url: normalized target,
\* error: reason} with no status, title, description, og field or
\* textPreview and with empty headings and links.
C12_ScrapeFetchError ==
  (pc = "done" /\ route = "POST /api/scrape" /\ fetches # <<>>
     /\ fetches[1].outcome = "error") =>
    /\ res.status = 500
    /\ \E reason \in FetchErrors :
         res.result = [NoResult EXCEPT !.url = normalizeUrl(body.url.s), !.error = reason]

\* C12 witness: the scrape of a url with a trailing slash and a fragment
\* failed at its fetch and was answered with the report for the normalized
\* url.
C12_Witness ==
  /\ pc = "done" /\ route = "POST /api/scrape"
  /\ fetches # <<>> /\ fetches[1].outcome = "error"
  /\ res.result.error \in FetchErrors
  /\ res.result.url # body.url.s

\* C13. Scrape on non-HTML success: when the response is not HTML, the
\* handler answers 200 with {url, status, error: 'Skipped non-HTML
\* response'} and nothing extracted; and a scrape makes one fetch only.
C13_ScrapeNonHtml ==
  /\ (pc = "done" /\ route = "POST /api/scrape" /\ fetches # <<>>
        /\ fetches[1].outcome = "nonhtml") =>
       /\ res.status = 200
       /\ res.result = [NoResult EXCEPT !.url = normalizeUrl(body.url.s),
                                        !.status = <<StatusOk>>,
                                        !.error = "Skipped non-HTML response"]
  /\ route = "POST /api/scrape" => Len(fetches) <= 1

\* C13 witness: a scrape was answered 200 with the skip marker after its one
\* fetch got a response that is not HTML.
C13_Witness ==
  /\ pc = "done" /\ route = "POST /api/scrape" /\ res.status = 200
  /\ Len(fetches) = 1 /\ fetches[1].outcome = "nonhtml"
  /\ res.result.error = "Skipped non-HTML response"

\* C14. Normalization idempotence: for every valid absolute URL u,
\* normalize(u) is not null, and normalizing a normalized URL returns it
\* unchanged.
C14_NormalizationIdempotence ==
  \A i \in 1..Len(calls) :
    /\ (calls[i].kind = "raw" /\ ParseUrl(raw).ok) => calls[i].ret # Null
    /\ calls[i].kind = "again" => calls[i].ret = calls[i].arg

\* C15. Fragment stripping: for every valid absolute URL u and fragment f,
\* normalize(u + '#' + f) = normalize(u); and no normalized form contains a
\* fragment.
C15_FragmentStripping ==
  \A i \in 1..Len(calls) :
    /\ (calls[i].kind = "fragment" /\ ParseUrl(raw).ok) => calls[i].ret = calls[1].ret
    /\ calls[i].ret # Null => "#" \notin Range(calls[i].ret)

\* C15 witness: a URL with a query that ends in "/" and a fragment of its
\* own was normalized with a further fragment appended, to a form other
\* than the URL itself.
C15_Witness ==
  /\ Len(calls) = 2 /\ calls[2].kind = "fragment"
  /\ ParseUrl(raw).hasSearch /\ ParseUrl(raw).hasHash
  /\ ParseUrl(raw).search # <<>> /\ ParseUrl(raw).search[Len(ParseUrl(raw).search)] = "/"
  /\ Len(calls[2].arg) > Len(raw) + 1
  /\ calls[2].ret = calls[1].ret /\ calls[2].ret # raw

\* C16. Trailing-slash equivalence: for every valid absolute URL u without
\* query, normalize(u + '/') = normalize(u); and no normalized form ends
\* with "/".
C16_TrailingSlashEquivalence ==
  \A i \in 1..Len(calls) :
    /\ (calls[i].kind = "slash" /\ ParseUrl(raw).ok /\ ~ParseUrl(raw).hasSearch) =>
         calls[i].ret = calls[1].ret
    /\ (calls[i].ret # Null /\ calls[i].ret # <<>>) =>
         calls[i].ret[Len(calls[i].ret)] # "/"

\* The response a crawl got for url, by the history of its fetches.
ResponseFor(history, url) ==
  IF \E i \in 1..Len(history) : history[i].url = url
  THEN history[CHOOSE i \in 1..Len(history) : history[i].url = url]
  ELSE [url |-> url, outcome |-> "none", data |-> Undefined]

\* The report of url that a response fixes, whatever crawl fetched it.
ReportOf(url, response) ==
  CASE response.outcome = "error" -> FailureReport(url, response.data)
    [] response.outcome = "nonhtml" -> SkippedReport(url)
    [] response.outcome = "throws" ->
         [NoPage EXCEPT !.url = url, !.status = <<StatusOk>>, !.error = ParseError]
    [] response.outcome = "html" ->
         [NoPage EXCEPT !.url = url, !.status = <<StatusOk>>,
                        !.title = OrUndefined(response.data.title),
                        !.description = IF response.data.metaName = Undefined
                                        THEN Undefined
                                        ELSE OrUndefined(response.data.metaName),
                        !.links = ExtractLinks(response.data, url)]
    [] OTHER -> NoPage

\* The entries a crawl with the options of frame f, run alone, pushes for
\* the links of a report when its visited set is seen.
AloneSuccessors(f, links, nextDepth, seen) ==
  LET Passes(link) ==
        /\ nextDepth * Unit <= f.maxDepth
        /\ link # <<>>
        /\ f.sameDomain => isSameDomain(link, f.origin)
        /\ link \notin seen
      passing == SelectSeq(links, Passes)
  IN  [i \in 1..Len(passing) |-> [url |-> passing[i], depth |-> nextDepth]]

\* The reports of the crawl of frame f run alone from frontier q, visited
\* set seen and reports out, every fetch answered as in f's history (a fetch
\* without answer there ends the run with an empty report).
RECURSIVE AloneLoop(_, _, _, _)
AloneLoop(f, q, seen, out) ==
  IF q = <<>> \/ ~(Len(out) * Unit < f.maxPages) THEN out
  ELSE LET entry == Head(q)
           normalized == normalizeUrl(entry.url)
           response == ResponseFor(f.fetches, normalized)
           report == ReportOf(normalized, response)
       IN  IF normalized = Null \/ normalized = <<>> \/ normalized \in seen
           THEN AloneLoop(f, Tail(q), seen, out)
           ELSE IF report = NoPage THEN Append(out, NoPage)
           ELSE AloneLoop(f,
                          Tail(q) \o (IF response.outcome = "html"
                                      THEN AloneSuccessors(f, report.links, entry.depth + 1,
                                                           seen \cup {normalized})
                                      ELSE <<>>),
                          seen \cup {normalized},
                          Append(out, report))

\* The result of the crawl of frame f when it runs alone.
AloneRun(f) == AloneLoop(f, <<[url |-> f.body.url.s, depth |-> 0]>>, {}, <<>>)

\* C17. Isolation of concurrent crawls: with two crawl() invocations
\* interleaved at their awaits, each returns the result it returns when run
\* alone against the same responses; and a step of the invocation that runs
\* leaves the frame of the other one (its visited set, frontier and reports)
\* as it is, a switch only exchanging the two frames.
C17_Isolation ==
  /\ []((pc = "done" /\ origin.ok) => res.pages = AloneRun(Frame))
  /\ []((other.pc = "done" /\ other.origin.ok) => other.res.pages = AloneRun(other))
  /\ [][other' = other \/ (other' = Frame /\ Frame' = other)]_vars

\* C17 witness: one invocation returned three reports while the other one,
\* started before it returned, is suspended at a fetch with a report made,
\* and both have visited the same URL.
C17_Witness ==
  /\ pc = "done" /\ res.status = 200 /\ Len(res.pages) = 3
  /\ other.pc = "fetch" /\ Len(other.pages) >= 1
  /\ visited \cap other.visited # {}
  /\ body # other.body

\* C18. Depth cap 0: a crawl with maxDepth = 0 fetches the seed only and
\* never pushes a successor; its result is exactly one report, for the
\* normalized start URL, with the links of the page when the fetch returned
\* HTML.
C18_DepthCapZero ==
  (Crawling /\ maxDepth = 0) =>
    /\ pushed = <<>>
    /\ Len(fetches) <= 1 /\ Len(pages) <= 1
    /\ \A i \in 1..Len(fetches) : fetches[i].url = normalizeUrl(body.url.s)
    /\ pc = "done" =>
         /\ Len(res.pages) = 1
         /\ res.pages[1].url = normalizeUrl(body.url.s)
         /\ fetches[1].outcome = "html" =>
              res.pages[1].links = ExtractLinks(fetches[1].data, res.pages[1].url)

\* C18 witness: a crawl with maxDepth 0 and room for more pages returned
\* one report with links to pages of its own hostname that were not visited.
C18_Witness ==
  /\ pc = "done" /\ res.status = 200 /\ maxDepth = 0
  /\ maxPages >= 2 * Unit
  /\ Len(res.pages) = 1 /\ Len(res.pages[1].links) >= 2
  /\ \E link \in Range(res.pages[1].links) :
       link \notin visited /\ isSameDomain(link, origin)

\* C19. Graceful fallback of the events scraper: when the fetch of the
\* events page fails, GET /api/tum-events answers with an empty event list
\* and not with an error; and an event whose detail fetch failed stays in
\* the list, without image, the response listing every event.
C19_EventsFallback ==
  (route = "GET /api/tum-events" /\ pc = "done") =>
    /\ fetches[1].outcome = "error" => (res.status = 200 /\ res.events = <<>>)
    /\ fetches[1].outcome = "html" =>
         /\ res.status = 200
         /\ res.count = Len(limited) /\ Len(res.events) = Len(limited)
         /\ \A i \in 1..Len(limited) :
              fetches[1 + i].outcome = "error" => res.events[i] = limited[i]

\* The nearest value to n in [low, high].
Nearest(n, low, high) == Max(low, Min(n, high))

\* C20. Defensive clamping inside the crawl operation: crawl() called with
\* maxPages outside [1, 20] or maxDepth outside [0, 3] returns what it
\* returns for the nearest bounds against the same responses.
C20_DefensiveClamping ==
  (route = "crawl()" /\ pc = "done") =>
    pages = AloneLoop([Frame EXCEPT
                         !.maxPages = Nearest(maxPages, MinPages * Unit, MaxPages * Unit),
                         !.maxDepth = Nearest(maxDepth, MinDepth * Unit, MaxDepth * Unit)],
                      <<[url |-> UrlToString(origin), depth |-> 0]>>, {}, <<>>)

\* The normalized URLs a crawl of the pages under study can meet.
CrawlUrls ==
  { <<"https:", "//", "h">>, <<"https:", "//", "h", "/", "a">>,
    <<"https:", "//", "h", "/", "b">>, <<"https:", "//", "g">>,
    <<"https:", "//", "sub.h", "/", "a">>, <<"https:", "//", "h", ":81", "/", "a">> }

\* u is the normalized URL of an entry of the frontier.
InFrontier(u) == \E i \in 1..Len(queue) : normalizeUrl(queue[i].url) = u

\* C21. Skip is not terminal: an iteration whose dequeued entry does not
\* normalize or is visited already emits no report, issues no fetch and
\* stays in the loop; and a URL of the frontier that is not visited is
\* visited later on, or the reports reach maxPages first.
C21_SkipNotTerminal ==
  /\ [][(pc = "loop" /\ LoopCondition /\ Skips(normalizeUrl(Head(queue).url))) =>
          /\ pc' = "loop"
          /\ queue' = Tail(queue)
          /\ pages' = pages /\ fetches' = fetches /\ visited' = visited]_vars
  /\ \A u \in CrawlUrls :
       (pc = "loop" /\ InFrontier(u) /\ u \notin visited)
         ~> ((u \in visited /\ \E i \in 1..Len(fetches) : fetches[i].url = u)
               \/ ~(Len(pages) * Unit < maxPages))

\* C21 witness: an entry whose URL is visited already was dequeued without a
\* report or a fetch (the last report came from an entry of another depth),
\* an entry that is not visited sits at the head of the frontier behind it,
\* and the loop goes on.
C21_Witness ==
  /\ pc = "loop" /\ LoopCondition
  /\ normalizeUrl(current.url) \in visited
  /\ pages # <<>> /\ visitDepth[Len(visitDepth)] # current.depth
  /\ Len(fetches) = Len(pages)
  /\ normalizeUrl(Head(queue).url) \in CrawlUrls \ visited


\* Report k is an HTML success: it has a status and no error.
HtmlSuccess(k) == pages[k].status # <<>> /\ pages[k].error = Undefined

\* The visited set at the moment report k was pushed.
VisitedAt(k) == {pages[j].url : j \in 1..k}

\* The entries pushed for report k, in the order of the pushes.
PushedFrom(k) ==
  LET From_k(e) == e.from = k
      sel == SelectSeq(pushed, From_k)
  IN  [i \in 1..Len(sel) |-> [url |-> sel[i].url, depth |-> sel[i].depth]]

\* The entries the rule asks for report k: none unless the report is an
\* HTML success and the depth after it is within maxDepth; else one for
\* each link, in link order, that has the hostname of the origin when
\* sameDomain is set and is not visited.
Expected(k) ==
  LET Passes(link) ==
        /\ sameDomain => (ParseUrl(link).ok /\ ParseUrl(link).hostname = origin.hostname)
        /\ link \notin VisitedAt(k)
      sel == SelectSeq(pages[k].links, Passes)
  IN  IF HtmlSuccess(k) /\ (visitDepth[k] + 1) * Unit <= maxDepth
      THEN [i \in 1..Len(sel) |-> [url |-> sel[i], depth |-> visitDepth[k] + 1]]
      ELSE <<>>

\* C22. Successor expansion rule: the entries pushed for a report are, in
\* link order, exactly the links of an HTML-success report whose depth
\* (current depth + 1) is within maxDepth, that pass the same-domain filter
\* on hostnames and are not visited at that moment; every push belongs to a
\* report; and every frontier entry is the seed or a pushed entry, with a
\* depth in [0, maxDepth].
C22_SuccessorExpansion ==
  /\ \A k \in 1..Len(pages) : PushedFrom(k) = Expected(k)
  /\ \A i \in 1..Len(pushed) :
       /\ pushed[i].from \in 1..Len(pages)
       /\ pushed[i].url = pages[pushed[i].from].links[pushed[i].at]
       /\ \A j \in 1..(i - 1) :
            pushed[j].from < pushed[i].from
              \/ (pushed[j].from = pushed[i].from /\ pushed[j].at < pushed[i].at)
  /\ \A i \in 1..Len(queue) :
       /\ queue[i].depth >= 0 /\ queue[i].depth * Unit <= Max(maxDepth, 0)
       /\ \/ queue[i] = [url |-> body.url.s, depth |-> 0]
          \/ \E j \in 1..Len(pushed) :
               queue[i] = [url |-> pushed[j].url, depth |-> pushed[j].depth]

\* C22 witness: with sameDomain set, a report had a link of another
\* hostname left out and a link pushed, and a later report, reached through
\* a pushed entry, had a visited link left out and a link pushed.
C22_Witness ==
  /\ sameDomain
  /\ \E k1, k2 \in 1..Len(pages) :
       /\ k1 < k2 /\ visitDepth[k2] = visitDepth[k1] + 1
       /\ PushedFrom(k1) # <<>> /\ PushedFrom(k2) # <<>>
       /\ \E i \in 1..Len(pages[k1].links) :
            ParseUrl(pages[k1].links[i]).hostname # origin.hostname
       /\ \E i \in 1..Len(pages[k2].links) : pages[k2].links[i] \in VisitedAt(k2)
       /\ Len(PushedFrom(k2)) < Len(pages[k2].links)


\* C23. Visited is monotonic and settles dedup before the fetch: during a
\* crawl the visited set only grows; the URL of every fetch, pending ones
\* included, is in the visited set; and no normalized URL is fetched twice,
\* whatever the outcome of its fetch was.
C23_VisitedMonotonic ==
  /\ [][visited \subseteq visited']_vars
  /\ [](route = "POST /api/crawl" =>
          /\ \A i \in 1..Len(fetches) : fetches[i].url \in visited
          /\ \A i, j \in 1..Len(fetches) : fetches[i].url = fetches[j].url => i = j)

\* C23 witness: a crawl has ended with its frontier used up, the fetch of a
\* URL that was pushed twice failed or got a response that is not HTML, and
\* the URL was fetched once.
C23_Witness ==
  /\ pc = "done" /\ res.status = 200 /\ queue = <<>>
  /\ \E i \in 1..Len(fetches) :
       /\ fetches[i].outcome \in {"error", "nonhtml"}
       /\ Cardinality({j \in 1..Len(pushed) : pushed[j].url = fetches[i].url}) >= 2
       /\ Cardinality({j \in 1..Len(fetches) : fetches[j].url = fetches[i].url}) = 1


\* The link that anchor i of a page at base gives: its href resolved against
\* base and normalized.
LinkAt(anchors, base, i) ==
  LET absolute == UrlToString(ResolveUrl(anchors[i], base))
  IN  IF normalizeUrl(absolute) # Null THEN normalizeUrl(absolute) ELSE absolute

\* Anchor i is among the first 50 and gives a link: its href is not empty
\* and resolves.
GivesLink(anchors, base, i) ==
  i <= 50 /\ anchors[i] # <<>> /\ ResolveUrl(anchors[i], base).ok

\* What each anchor of a page at base gives: its link when it is among the
\* first 50, has an href that is not empty and resolves; Null otherwise.
Given(anchors, base) ==
  SubSeq([i \in 1..Len(anchors) |->
            IF GivesLink(anchors, base, i) THEN LinkAt(anchors, base, i) ELSE Null],
         1, Len(anchors))

\* The first index of given that holds the link.
FirstSeen(given, link) ==
  LET at == {i \in 1..Len(given) : given[i] = link}
  IN  CHOOSE i \in at : \A j \in at : i <= j

\* links is what the claim says of a page whose anchors give given.
LinksAsClaimed(links, given) ==
  /\ Len(links) <= 50
  /\ \A a, b \in 1..Len(links) : a # b => links[a] # links[b]
  /\ \A a \in 1..Len(links) : links[a] # Null /\ links[a] \in Range(given)
  /\ \A i \in 1..Len(given) : given[i] # Null => given[i] \in Range(links)
  /\ \A a \in 1..(Len(links) - 1) :
       FirstSeen(given, links[a]) < FirstSeen(given, links[a + 1])

\* C24. Links of a report: the links of every report that a crawl returns
\* and of the result of a scrape are at most 50, without duplicates, in the
\* order in which the anchors first give them, and exactly the links that
\* the first 50 anchors with an href give, each href resolved against the
\* normalized URL of the page and normalized; a report of a fetch that gave
\* no HTML has no links.
C24_LinksOfReport ==
  /\ (route = "POST /api/crawl" /\ pc = "done" /\ res.status = 200) =>
       \A k \in 1..Len(res.pages) :
         IF fetches[k].outcome = "html"
         THEN LinksAsClaimed(res.pages[k].links,
                             Given(fetches[k].data.anchors, res.pages[k].url))
         ELSE res.pages[k].links = <<>>
  /\ (route = "POST /api/scrape" /\ pc = "done" /\ Len(fetches) > Len(pages)) =>
       /\ res.result.links = result.links
       /\ IF fetches[Len(fetches)].outcome = "html"
          THEN LinksAsClaimed(res.result.links,
                              Given(fetches[Len(fetches)].data.anchors, result.url))
          ELSE res.result.links = <<>>

\* C24 witness: a scrape of a page with more than 50 anchors was answered
\* with 50 links, after a crawl that reported five links for a page whose
\* first 50 anchors repeat five hrefs and whose later anchors have others.
C24_Witness ==
  /\ route = "POST /api/scrape" /\ pc = "done" /\ res.status = 200
  /\ Len(res.result.links) = 50
  /\ Len(fetches[Len(fetches)].data.anchors) > 50
  /\ \E k \in 1..Len(pages) :
       /\ fetches[k].outcome = "html"
       /\ Len(fetches[k].data.anchors) > 50
       /\ Len(pages[k].links) = 5


\* C25. Query preservation: for every valid absolute URL u, normalize(u) is
\* a URL whose query component equals the query component of u, also when
\* the query ends with "/".
C25_QueryPreservation ==
  \A i \in 1..Len(calls) :
    (calls[i].kind = "raw" /\ ParseUrl(raw).ok) =>
      /\ calls[i].ret # Null
      /\ ParseUrl(calls[i].ret).ok
      /\ ParseUrl(calls[i].ret).search = ParseUrl(raw).search


\* C26. Crawl report is a projection of the scrape report: when a scrape
\* and a report of a crawl have the same URL and got the same response,
\* the fields url, status, title, description, links and error of the two
\* are equal, whatever the page holds.
C26_CrawlReportProjection ==
  (route = "POST /api/scrape" /\ pc = "done" /\ Len(fetches) > Len(pages)) =>
    \A k \in 1..Len(pages) :
      ( /\ pages[k].url = res.result.url
        /\ fetches[k].outcome = fetches[Len(fetches)].outcome
        /\ fetches[k].data = fetches[Len(fetches)].data ) =>
        \A f \in {"url", "status", "title", "description", "links", "error"} :
          pages[k][f] = res.result[f]


\* C27. One report per visited URL: at every loop boundary of crawl() the
\* reports are as many as the visited URLs and their URLs are the visited
\* set, whatever the fetches gave; while a fetch is awaited, the URL
\* fetched is the one visited URL without a report.
C27_OneReportPerVisited ==
  (route = "POST /api/crawl" /\ origin.ok) =>
    /\ pc \in {"loop", "done"} =>
         /\ Len(pages) = Cardinality(visited)
         /\ {pages[k].url : k \in 1..Len(pages)} = visited
    /\ pc = "fetch" =>
         /\ Len(pages) + 1 = Cardinality(visited)
         /\ {pages[k].url : k \in 1..Len(pages)} = visited \ {page.url}

\* C27 witness: a crawl has ended with three reports for three visited
\* URLs after a fetch that failed, a page that did not parse and an HTML
\* page whose links were expanded.
C27_Witness ==
  /\ pc = "done" /\ res.status = 200
  /\ Len(res.pages) = 3 /\ Cardinality(visited) = 3
  /\ \E i, j, k \in 1..Len(fetches) :
       /\ fetches[i].outcome = "error"
       /\ fetches[j].outcome = "throws"
       /\ fetches[k].outcome = "html"
  /\ pushed # <<>>


\* The three shapes of a report: of a fetch that failed, of a response that
\* is not HTML, of an HTML success.
FailureShape(p) == p.error # Undefined /\ p.status = <<>> /\ p.links = <<>>
NonHtmlShape(p) ==
  /\ p.status # <<>> /\ p.error = "Skipped non-HTML response" /\ p.links = <<>>
  /\ p.title = Undefined /\ p.description = Undefined
SuccessShape(p) == p.status # <<>> /\ p.error = Undefined

\* C28. Shape of a crawl PageReport: every report has one of the three
\* shapes; hence a report with links has no error, and only reports of the
\* success shape have successors pushed.
C28_ReportShapes ==
  /\ \A k \in 1..Len(pages) :
       /\ FailureShape(pages[k]) \/ NonHtmlShape(pages[k]) \/ SuccessShape(pages[k])
       /\ pages[k].links # <<>> => pages[k].error = Undefined
  /\ \A i \in 1..Len(pushed) : SuccessShape(pages[pushed[i].from])


\* C29. Meetup capacity under concurrency: for a meetup with maxAttendees
\* N > 0, whatever the interleaving of the join and leave requests of
\* distinct users, the members of the meetup are never more than N.
C29_MeetupCapacity ==
  maxAttendees > 0 => Cardinality(members) <= maxAttendees


\* C30. Web session consistency: in the AuthProvider a user that is not
\* null comes with a token that is not null, and once logout() was called
\* the user is null until login() is called again, also when a profile
\* fetch that was in flight at the logout completes afterwards.
C30_SessionConsistency ==
  /\ user # None => token # None
  /\ loggedOut => user = None


====
